---- MODULE Spec2Model ----
(***************************************************************************)
(* A model of wp2block's shortcode package (src/shortcode/shortcode.go):   *)
(* the tag lexer parseShortcode, the attribute lexer parseAttrs, the tree  *)
(* rewriter ProcessShortcodes and the math-span rewriter ProcessWpLatex.   *)
(*                                                                         *)
(* Strings are sequences of one-character strings.  Positions are Go's     *)
(* zero-based byte offsets: At(s, k) is s[k], Slice(s, a, b) is s[a:b].    *)
(* All characters of the model are ASCII, so utf8.DecodeRuneInString       *)
(* always yields a rune of size 1.                                          *)
(*                                                                         *)
(* The document tree is an arena: a sequence of node records, a node's id  *)
(* being its index.  A node holds its parent (0 = detached) and the        *)
(* sequence of its children; FirstChild, NextSibling and friends of the    *)
(* html package are read off that sequence.                                *)
(***************************************************************************)
EXTENDS Integers, Sequences, FiniteSets, TLC

VARIABLES
    toks,      \* the input the run was started on (never changes)
    nodes,     \* the document tree (arena of html.Node)
    frames,    \* the call stack of processNode / processLatexNode
    pc,        \* the control position of the running function
    scanPos,   \* processTextNode's i
    result,    \* "running", "ok", "error" or "panic"
    err,       \* the error value returned, NoErr while there is none
    last,      \* what the last step was applied to (history)
    seen,      \* the events met so far (history), see Events
    attrs,     \* parseAttrs: the attribute text
    attrPos,   \* parseAttrs: pos
    keyIdx,    \* parseAttrs: keyIdx
    attrOut,   \* parseAttrs: node.Attr
    stage,     \* which step of ConvertHtmlToMarkdown is running
    wr,        \* the writer: out, lfRunCounter, lfRunTarget, indents, Verbatim
    ret,       \* what ConvertHtmlToMarkdown returned, NoRet before it returns
    saved,     \* the tree after the first run of ProcessShortcodes (history)
    calls      \* the calls made on the writer so far (history)

vars == <<toks, nodes, frames, pc, scanPos, result, err, last, seen,
          attrs, attrPos, keyIdx, attrOut, stage, wr, ret, saved, calls>>

\* the state of the renderer and of the pipeline around the rewriters
others == <<stage, wr, ret, saved, calls>>

----------------------------------------------------------------------------
(* Bounds of the model.                                                    *)

\* longest input of the tree rewriter, in tokens
MaxTok == 5
\* longest input of the lexer cases, in tokens
MaxLexTok == 2
\* longest attribute text, in attribute tokens
MaxAttrTok == 3
\* longest input of the math-span rewriter, in tokens
MaxLatexTok == 5

----------------------------------------------------------------------------
(* Go strings and slices.                                                  *)

At(s, k) == s[k + 1]

Slice(s, a, b) == SubSeq(s, a + 1, b)

From(s, a) == SubSeq(s, a + 1, Len(s))

\* strings.Index(s[from:], ch) + from for a one-byte pattern, -1 when absent
RECURSIVE IndexFrom(_, _, _)
IndexFrom(s, ch, from) ==
    IF from >= Len(s) THEN -1
    ELSE IF At(s, from) = ch THEN from
    ELSE IndexFrom(s, ch, from + 1)

IndexByte(s, ch) == IndexFrom(s, ch, 0)

HasPrefixAt(s, pat, k) ==
    /\ k + Len(pat) <= Len(s)
    /\ Slice(s, k, k + Len(pat)) = pat

\* strings.Index(s, pat)
RECURSIVE IndexStrFrom(_, _, _)
IndexStrFrom(s, pat, from) ==
    IF from + Len(pat) > Len(s) THEN -1
    ELSE IF HasPrefixAt(s, pat, from) THEN from
    ELSE IndexStrFrom(s, pat, from + 1)

IndexStr(s, pat) == IndexStrFrom(s, pat, 0)

Digits == <<"0", "1", "2", "3", "4", "5", "6", "7", "8", "9">>

\* fmt.Sprintf("%d", n) for n >= 0
RECURSIVE Itoa(_)
Itoa(n) == IF n < 10 THEN <<Digits[n + 1]>>
           ELSE Itoa(n \div 10) \o <<Digits[(n % 10) + 1]>>

----------------------------------------------------------------------------
(* Character classes.                                                      *)

Lower == {"a", "b", "c", "d", "e", "f", "g", "h", "i", "j", "k", "l", "m",
          "n", "o", "p", "q", "r", "s", "t", "u", "v", "w", "x", "y", "z"}

Upper == {"A", "B", "C", "D", "E", "F", "G", "H", "I", "J", "K", "L", "M",
          "N", "O", "P", "Q", "R", "S", "T", "U", "V", "W", "X", "Y", "Z"}

DigitChars == {"0", "1", "2", "3", "4", "5", "6", "7", "8", "9"}

isSpace(ch) == ch \in {" ", "\t", "\n", "\r", "\f"}

isWord(ch) == ch \in Upper \cup Lower \cup DigitChars \cup {"_"}

isShortname(ch) == ch \in Upper \cup Lower \cup DigitChars \cup {"_", "-"}

RECURSIVE countSpaces(_)
countSpaces(str) ==
    IF Len(str) > 0 /\ isSpace(str[1]) THEN 1 + countSpaces(Tail(str)) ELSE 0

----------------------------------------------------------------------------
(* The registry and the tag lexer.                                         *)

Namespace == "wp"

CAPTION == <<"c", "a", "p", "t", "i", "o", "n">>

WP_CAPTION == <<"w", "p", "_", "c", "a", "p", "t", "i", "o", "n">>

LATEX == <<"l", "a", "t", "e", "x">>

shortcodeIsBlock == (CAPTION :> TRUE) @@ (WP_CAPTION :> TRUE) @@ (LATEX :> TRUE)

tagOpen == "open"

tagClose == "close"

\* the loop of parseShortcode that scans the tag name
RECURSIVE ScanName(_, _)
ScanName(text, nameend) ==
    IF nameend < Len(text) /\ isShortname(At(text, nameend))
    THEN ScanName(text, nameend + 1)
    ELSE nameend

NotATag(oc, tag) ==
    [panic |-> FALSE, size |-> 0, openClose |-> oc, tag |-> tag, rest |-> <<>>]

\* mutant: the escape form keeps the doubled bracket in the replacement
parseShortcodeEscapeKeepsBracket(text, end) ==
    [panic |-> FALSE, size |-> end + 2, openClose |-> {}, tag |-> <<>>,
     rest |-> Slice(text, 0, end + 2)]

\* `are we an escaped [[tag]]?`: the result of that branch
parseShortcodeEscape(text, end) ==
    [panic |-> FALSE, size |-> end + 2, openClose |-> {}, tag |-> <<>>,
     rest |-> Slice(text, 0, end + 1)]

\* mutant: every name is taken for a registered block tag
IsRegisteredAny(tag) == TRUE

\* `block, ok := shortcodeIsBlock[tag]`: ok
IsRegistered(tag) == tag \in DOMAIN shortcodeIsBlock

\* `block, ok := shortcodeIsBlock[tag]`: block (false for a missing key)
IsBlock(tag) ==
    IF tag \in DOMAIN shortcodeIsBlock THEN shortcodeIsBlock[tag] ELSE FALSE

\* text is everything after the initial '['.  panic: text[namestart:nameend]
\* is sliced with nameend = pos+1 > len(text).
parseShortcode(text) ==
    LET startEscape == 0 < Len(text) /\ At(text, 0) = "["
        pos1 == IF startEscape THEN 1 ELSE 0
        closing == pos1 < Len(text) /\ At(text, pos1) = "/"
        oc1 == IF closing THEN {tagClose} ELSE {tagOpen}
        pos == IF closing THEN pos1 + 1 ELSE pos1
        namestart == pos
        nameend == ScanName(text, pos + 1)
    IN  IF nameend > Len(text)
        THEN [panic |-> TRUE, size |-> 0, openClose |-> oc1, tag |-> <<>>,
              rest |-> <<>>]
        ELSE
        LET tag == Slice(text, namestart, nameend)
        IN  IF ~IsRegistered(tag) THEN NotATag(oc1, tag)
            ELSE IF ~IsBlock(tag) /\ oc1 = {tagClose}
            THEN NotATag(oc1, tag)
            ELSE
            LET oc2 == IF IsBlock(tag) THEN oc1
                       ELSE {tagOpen, tagClose}
                end == IndexByte(text, "]")
            IN  IF end < nameend THEN NotATag(oc2, tag)
                ELSE IF /\ startEscape
                        /\ end = nameend
                        /\ end + 1 < Len(text)
                        /\ At(text, end + 1) = "]"
                THEN parseShortcodeEscape(text, end)
                ELSE IF At(text, end - 1) = "/"
                THEN [panic |-> FALSE, size |-> end + 1,
                      openClose |-> oc2 \cup {tagClose}, tag |-> tag,
                      rest |-> Slice(text, nameend, end - 1)]
                ELSE IF tagClose \in oc2 /\ nameend # end
                THEN NotATag(oc2, tag)
                ELSE [panic |-> FALSE, size |-> end + 1, openClose |-> oc2,
                      tag |-> tag, rest |-> Slice(text, nameend, end)]

----------------------------------------------------------------------------
(* The attribute lexer.                                                    *)

RECURSIVE ScanWord(_, _)
ScanWord(a, k) ==
    IF k < Len(a) /\ isWord(At(a, k)) THEN ScanWord(a, k + 1) ELSE k

\* the scan of an unquoted key=value value
RECURSIVE ScanUnquoted(_, _)
ScanUnquoted(a, k) ==
    IF k < Len(a) /\ ~isSpace(At(a, k)) /\ At(a, k) # "\"" /\ At(a, k) # "'"
    THEN ScanUnquoted(a, k + 1)
    ELSE k

\* the scan of an unquoted positional value
RECURSIVE ScanNonSpace(_, _)
ScanNonSpace(a, k) ==
    IF k < Len(a) /\ ~isSpace(At(a, k)) THEN ScanNonSpace(a, k + 1) ELSE k

\* a + 1 + strings.IndexRune(s[a+1:], q)
QuoteEnd(a, p, q) ==
    LET r == IndexByte(From(a, p + 1), q) IN p + 1 + r

\* mutant: positional keys count every entry, not the positional ones only
PositionalKeyCountsAll(idx, nout) == <<"@">> \o Itoa(nout)

\* fmt.Sprintf("@%d", keyIdx)
PositionalKey(idx, nout) == <<"@">> \o Itoa(idx)

\* the entry of a positional value a[innerPos:innerEnd] that ends at end
attrPositionalEntry(a, idx, nout, innerPos, innerEnd, end) ==
    [kind |-> "positional", pos |-> end, keyIdx |-> idx + 1,
     entry |-> <<PositionalKey(idx, nout), Slice(a, innerPos, innerEnd)>>]

\* `quoted value?` with q = innerEnd, else `try regular value`
attrPositionalQuoted(a, pos, idx, nout, q) ==
    IF q > pos
    THEN attrPositionalEntry(a, idx, nout, pos + 1, q, q + 1)
    ELSE attrPositionalEntry(a, idx, nout, pos, ScanNonSpace(a, pos), ScanNonSpace(a, pos))

\* `key-value pair didn't work out. try parsing as indexed value`
attrPositional(a, pos, idx, nout) ==
    attrPositionalQuoted(a, pos, idx, nout,
                         IF At(a, pos) = "\"" THEN QuoteEnd(a, pos, "\"") ELSE pos)

\* `if we have a value, add it to the node!`, else the positional case
attrValueEntry(a, pos, keyEnd, idx, nout, valPos, innerPos, innerEnd, valEnd) ==
    IF valEnd # valPos
    THEN [kind |-> "keyvalue", pos |-> valEnd, keyIdx |-> idx,
          entry |-> <<Slice(a, pos, keyEnd), Slice(a, innerPos, innerEnd)>>]
    ELSE attrPositional(a, pos, idx, nout)

\* `quoted attrib?` with q = innerEnd, else `unquoted attrib?`
attrValueQuoted(a, pos, keyEnd, idx, nout, valPos, q) ==
    IF q > valPos
    THEN attrValueEntry(a, pos, keyEnd, idx, nout, valPos, valPos + 1, q, q + 1)
    ELSE attrValueEntry(a, pos, keyEnd, idx, nout, valPos, valPos,
                        ScanUnquoted(a, valPos), ScanUnquoted(a, valPos))

\* `looks like a key-value pair`: the value starts at valPos
attrValue(a, pos, keyEnd, idx, nout, valPos) ==
    IF valPos < Len(a)
    THEN attrValueQuoted(a, pos, keyEnd, idx, nout, valPos,
                         IF At(a, valPos) \in {"\"", "'"}
                         THEN QuoteEnd(a, valPos, At(a, valPos))
                         ELSE valPos)
    ELSE attrPositional(a, pos, idx, nout)

\* `try to parse key name`: the key is a[pos:keyEnd], eqPos where '=' may be
attrKey(a, pos, keyEnd, idx, nout, eqPos) ==
    IF eqPos < Len(a) /\ At(a, eqPos) = "="
    THEN attrValue(a, pos, keyEnd, idx, nout,
                   eqPos + 1 + countSpaces(From(a, eqPos + 1)))
    ELSE attrPositional(a, pos, idx, nout)

\* the loop body once the leading spaces are skipped
attrEntry(a, pos, idx, nout, keyEnd) ==
    IF pos >= Len(a)
    THEN [kind |-> "break", pos |-> pos, keyIdx |-> idx, entry |-> <<>>]
    ELSE attrKey(a, pos, keyEnd, idx, nout, keyEnd + countSpaces(From(a, keyEnd)))

attrSkipped(a, pos, idx, nout) == attrEntry(a, pos, idx, nout, ScanWord(a, pos))

\* One iteration of parseAttrs' loop at pos < len(attrs); nout is
\* len(node.Attr).  kind "break" is the `if pos >= len(attrs)` exit.
attrStep(a, pos, idx, nout) ==
    attrSkipped(a, pos + countSpaces(From(a, pos)), idx, nout)

\* parseAttrs run to its end: the attribute list appended to a fresh node
RECURSIVE parseAttrsFrom(_, _, _, _)
parseAttrsNext(a, s, out) ==
    IF s.kind = "break" THEN out
    ELSE parseAttrsFrom(a, s.pos, s.keyIdx, Append(out, s.entry))

parseAttrsFrom(a, pos, idx, out) ==
    IF pos >= Len(a) THEN out
    ELSE parseAttrsNext(a, attrStep(a, pos, idx, Len(out)), out)

parseAttrs(a) == parseAttrsFrom(a, 0, 0, <<>>)

----------------------------------------------------------------------------
(* The document tree: html.Node and the html package's tree operations.    *)
(* Bad is the outcome of an operation whose precondition is violated (the  *)
(* html package panics there); every operation passes it on.               *)

Root == 1

Bad == <<>>

TextNode(data) ==
    [type |-> "text", data |-> data, ns |-> "", attr |-> <<>>,
     parent |-> 0, kids |-> <<>>]

ElementNode(name, ns, attr) ==
    [type |-> "element", data |-> name, ns |-> ns, attr |-> attr,
     parent |-> 0, kids |-> <<>>]

\* position of c in the child sequence, 0 when it is not there
RECURSIVE PosIn(_, _, _)
PosIn(kids, c, k) ==
    IF k > Len(kids) THEN 0
    ELSE IF kids[k] = c THEN k
    ELSE PosIn(kids, c, k + 1)

FirstChild(ns, p) == IF ns[p].kids = <<>> THEN 0 ELSE ns[p].kids[1]

NextSibling(ns, c) ==
    LET p == ns[c].parent
    IN  IF p = 0 THEN 0
        ELSE LET k == PosIn(ns[p].kids, c, 1)
             IN  IF k = 0 \/ k = Len(ns[p].kids) THEN 0 ELSE ns[p].kids[k + 1]

\* &html.Node{...}: a fresh detached node; its id is Len of the result
NewNode(ns, rec) == IF ns = Bad THEN Bad ELSE Append(ns, rec)

\* Node.RemoveChild: panics unless c is a child of p
RemoveChild(ns, p, c) ==
    IF ns = Bad THEN Bad
    ELSE IF p = 0 \/ ns[c].parent # p THEN Bad
    ELSE LET k == PosIn(ns[p].kids, c, 1)
         IN  [ns EXCEPT ![p].kids = SubSeq(@, 1, k - 1) \o SubSeq(@, k + 1, Len(@)),
                        ![c].parent = 0]

\* Node.AppendChild: panics unless c is detached
AppendChild(ns, p, c) ==
    IF ns = Bad THEN Bad
    ELSE IF p = 0 \/ ns[c].parent # 0 THEN Bad
    ELSE [ns EXCEPT ![p].kids = Append(@, c), ![c].parent = p]

\* mutant: the inserted node is linked into the children of p but its own
\* parent link is not set
InsertBeforeNoParentLink(ns, p, c, old) ==
    IF ns = Bad THEN Bad
    ELSE IF old = 0 THEN AppendChild(ns, p, c)
    ELSE IF p = 0 \/ ns[c].parent # 0 \/ ns[old].parent # p THEN Bad
    ELSE LET k == PosIn(ns[p].kids, old, 1)
         IN  [ns EXCEPT ![p].kids = SubSeq(@, 1, k - 1) \o <<c>> \o SubSeq(@, k, Len(@))]

\* Node.InsertBefore: panics unless c is detached; old = 0 appends
InsertBefore(ns, p, c, old) ==
    IF ns = Bad THEN Bad
    ELSE IF old = 0 THEN AppendChild(ns, p, c)
    ELSE IF p = 0 \/ ns[c].parent # 0 \/ ns[old].parent # p THEN Bad
    ELSE LET k == PosIn(ns[p].kids, old, 1)
         IN  [ns EXCEPT ![p].kids = SubSeq(@, 1, k - 1) \o <<c>> \o SubSeq(@, k, Len(@)),
                        ![c].parent = p]

\* Splits the text node into Data[:splitBefore], kept in node, and
\* Data[splitAfter:], a new node inserted right after it and returned.
splitTextNode(ns, node, splitBefore, splitAfter) ==
    LET withNew == NewNode(ns, TextNode(From(ns[node].data, splitAfter)))
        newNode == Len(withNew)
        cut == [withNew EXCEPT ![node].data = Slice(@, 0, splitBefore)]
    IN  [ns |-> InsertBefore(cut, ns[node].parent, newNode, NextSibling(ns, node)),
         node |-> newNode]

\* cleanupTree's loop over the children kids[k..] of node (next is read
\* before the child is removed, so the walk follows the original sequence)
RECURSIVE cleanupFrom(_, _, _, _)
cleanupFrom(ns, node, kids, k) ==
    IF ns = Bad \/ k > Len(kids) THEN ns
    ELSE LET n == kids[k]
             ns1 == IF ns[n].type = "text"
                    THEN IF Len(ns[n].data) = 0 THEN RemoveChild(ns, node, n)
                         ELSE ns
                    ELSE IF ns[n].type = "element"
                    THEN cleanupFrom(ns, n, ns[n].kids, 1)
                    ELSE ns
         IN  cleanupFrom(ns1, node, kids, k + 1)

\* mutant: a leading text child is removed whatever it holds
cleanupTreeDropsLeadingText(ns, node) ==
    IF FirstChild(ns, node) # 0 /\ ns[FirstChild(ns, node)].type = "text"
    THEN RemoveChild(ns, node, FirstChild(ns, node))
    ELSE cleanupFrom(ns, node, ns[node].kids, 1)

cleanupTree(ns, node) == cleanupFrom(ns, node, ns[node].kids, 1)

\* the tree below a node as a value: what html.Render would print
RECURSIVE Ser(_, _)
Ser(ns, id) ==
    [type |-> ns[id].type, data |-> ns[id].data, ns |-> ns[id].ns,
     attr |-> ns[id].attr,
     kids |-> [k \in 1..Len(ns[id].kids) |-> Ser(ns, ns[id].kids[k])]]

----------------------------------------------------------------------------
(* The writer of src/html2markdown.go.  A writer is a record; an operation *)
(* is an operator from the writer before the call to the writer after it.  *)

\* wr := &writer{RewriteUrl: rewriteFn}
NewWriter ==
    [out |-> <<>>, lfRunCounter |-> 0, lfRunTarget |-> 0, indents |-> <<>>,
     Verbatim |-> 0, fault |-> FALSE]

\* w.Clone()
Clone(w) == NewWriter

\* wr, err = w.out.Write(p); if wr != 0 { w.lfRunCounter = 0 }
outWrite(w, p) ==
    IF p = <<>> THEN w ELSE [w EXCEPT !.out = @ \o p, !.lfRunCounter = 0]

\* WriteByte('\n'): the linefeed, the count, the prefix of the innermost indent
writeLinefeed(w) ==
    [w EXCEPT !.out = @ \o <<"\n">>
                        \o (IF Len(w.indents) > 0 /\ w.Verbatim = 0
                            THEN w.indents[Len(w.indents)] ELSE <<>>),
              !.lfRunCounter = @ + 1]

RECURSIVE handleDelayedLfLoop(_)
handleDelayedLfLoop(w) ==
    IF w.lfRunCounter < w.lfRunTarget
    THEN handleDelayedLfLoop(writeLinefeed(w))
    ELSE w

handleDelayedLf(w) == [handleDelayedLfLoop(w) EXCEPT !.lfRunTarget = 0]

WriteByte(w, b) ==
    IF b = "\n" THEN writeLinefeed(w)
    ELSE [(IF w.lfRunTarget # 0 THEN handleDelayedLf(w) ELSE w)
             EXCEPT !.out = @ \o <<b>>, !.lfRunCounter = 0]

\* Write: the loop over the linefeeds of p (i is the first one), then the rest
RECURSIVE Write(_, _)
writeUpTo(w, p, i) ==
    Write(WriteByte(outWrite(IF i # 0 THEN handleDelayedLf(w) ELSE w, Slice(p, 0, i)),
                    "\n"),
          From(p, i + 1))

Write(w, p) ==
    IF IndexByte(p, "\n") # -1
    THEN writeUpTo(w, p, IndexByte(p, "\n"))
    ELSE outWrite(IF Len(p) # 0 THEN handleDelayedLf(w) ELSE w, p)

WriteString(w, str) == Write(w, str)

\* mutant: a later request replaces the pending one
EnsureLinefeedsLast(w, min) == [w EXCEPT !.lfRunTarget = min]

EnsureLinefeeds(w, min) ==
    IF min > w.lfRunTarget THEN [w EXCEPT !.lfRunTarget = min] ELSE w

\* mutant: the prefix alone is pushed, not appended to the one in effect
pushPrefixAlone(w, prefix) == [w EXCEPT !.indents = Append(@, prefix)]

pushPrefix(w, prefix) ==
    [w EXCEPT !.indents =
         Append(@, IF Len(@) > 0 THEN @[Len(@)] \o prefix ELSE prefix)]

PushIndent(w, prefix) == pushPrefix(handleDelayedLf(w), prefix)

\* w.indents[:len(w.indents)-1] is a run-time panic on an empty stack: the
\* history field fault records it
PopIndent(w) ==
    IF w.indents = <<>> THEN [w EXCEPT !.fault = TRUE]
    ELSE [w EXCEPT !.indents = SubSeq(@, 1, Len(@) - 1)]

----------------------------------------------------------------------------
(* Escaping of text for Markdown.                                          *)

\* the byte 96 (grave accent), which no string of the language can hold
GraveAccent == "grave"

\* the printable ASCII characters in the order of their codes, from 32
Printable ==
    <<
       " ", "!", "\"", "#", "$", "%", "&", "'", "(", ")", "*", "+",
       ",", "-", ".", "/", "0", "1", "2", "3", "4", "5", "6", "7",
       "8", "9", ":", ";", "<", "=", ">", "?", "@", "A", "B", "C",
       "D", "E", "F", "G", "H", "I", "J", "K", "L", "M", "N", "O",
       "P", "Q", "R", "S", "T", "U", "V", "W", "X", "Y", "Z", "[",
       "\\", "]", "^", "_", GraveAccent, "a", "b", "c", "d", "e", "f", "g",
       "h", "i", "j", "k", "l", "m", "n", "o", "p", "q", "r", "s",
       "t", "u", "v", "w", "x", "y", "z", "{", "|", "}", "~" >>

\* the byte value of a character; "" stands for the zero byte
Ord(ch) ==
    IF ch = "" THEN 0
    ELSE IF ch = "\t" THEN 9
    ELSE IF ch = "\n" THEN 10
    ELSE IF ch = "\f" THEN 12
    ELSE IF ch = "\r" THEN 13
    ELSE 31 + PosIn(Printable, ch, 1)

\* mutant: the backslash is not in the escaped set
escapedCharsNoBackslash ==
    << GraveAccent, "*", "_", "{", "}", "[", "]", "(", ")",
       "#", "+", "-", ".", "!", ":", "|", "&", "<", ">", "$" >>

\* var escapedCharsAll = "\\`*_{}[]()#+-.!:|&<>$"
escapedCharsAll ==
    << "\\", GraveAccent, "*", "_", "{", "}", "[", "]", "(", ")", 
       "#", "+", "-", ".", "!", ":", "|", "&", "<", ">", "$" >>

InChars(ch, chars) == \E k \in 1..Len(chars) : chars[k] = ch

\* bytes.IndexAny(b, chars)
RECURSIVE IndexAnyFrom(_, _, _)
IndexAnyFrom(b, chars, from) ==
    IF from >= Len(b) THEN -1
    ELSE IF InChars(At(b, from), chars) THEN from
    ELSE IndexAnyFrom(b, chars, from + 1)

IndexAny(b, chars) == IndexAnyFrom(b, chars, 0)

\* `escape` at the end of the switch over b[i]
needsEscape(b, i, prev) ==
    IF At(b, i) = "."
    THEN ~(Ord("0") < Ord(prev) \/ Ord("9") > Ord(prev))
    ELSE IF At(b, i) = ":"
    THEN ~(Len(b) < i + 3 \/ At(b, i + 1) # "/" \/ At(b, i + 2) # "/")
    ELSE IF At(b, i) = "!"
    THEN ~(Len(b) < i + 2 \/ At(b, i + 1) # "!")
    ELSE TRUE

\* one iteration of markdownEscape's loop at the escaped character b[i]
escapeAt(w, b, i, prev) ==
    WriteByte(IF needsEscape(b, i, prev) THEN WriteByte(Write(w, Slice(b, 0, i)), "\\")
              ELSE Write(w, Slice(b, 0, i)),
              At(b, i))

RECURSIVE markdownEscapeFrom(_, _, _, _)
markdownEscapeAt(w, b, escapedChars, lastByte, i) ==
    IF i = -1 THEN Write(w, b)
    ELSE markdownEscapeFrom(escapeAt(w, b, i, IF i > 0 THEN At(b, i - 1) ELSE lastByte),
                            From(b, i + 1), escapedChars, At(b, i))

markdownEscapeFrom(w, b, escapedChars, lastByte) ==
    markdownEscapeAt(w, b, escapedChars, lastByte, IndexAny(b, escapedChars))

markdownEscape(w, b, escapedChars) == markdownEscapeFrom(w, b, escapedChars, "")

surround(w, prefix, what, suffix, escapedChars) ==
    WriteString(markdownEscape(WriteString(w, prefix), what, escapedChars), suffix)

----------------------------------------------------------------------------
(* Inputs.  A document is written as a sequence of tokens; a token is a    *)
(* form f applied to a name n.  Expand gives the characters a token stands *)
(* for in the source text, Build the tree html.Parse makes of a token      *)
(* sequence: consecutive text ends up in one text node, "eopen"/"eclose"   *)
(* are the start and end tag of a native element, "void" is an element     *)
(* without end tag (<img src="u"/>).                                       *)

Tok(f, n) == [f |-> f, n |-> n]

NameChars(n) ==
    CASE n = "caption" -> CAPTION
      [] n = "wp_caption" -> WP_CAPTION
      [] n = "latex" -> LATEX
      [] n = "captions" -> CAPTION \o <<"s">>
      [] OTHER -> <<n>>

RegisteredNames == {"caption", "wp_caption", "latex"}

\* var latexStart = "$latex "
latexStart == <<"$", "l", "a", "t", "e", "x", " ">>

\* the attribute text of the "attr" form and the entries it stands for
AttrFormText == <<" ", "i", "d", "=", "\"", "b", "\"", " ", "w", "=", "d">>

AttrFormEntries == << <<<<"i", "d">>, <<"b">>>>, <<<<"w">>, <<"d">>>> >>

\* the attribute text of the "cattr" form, caption="c", and its entries
CaptionFormText == <<" ", "c", "a", "p", "t", "i", "o", "n", "=", "\"", "c", "\"">>

CaptionFormEntries == << <<<<"c", "a", "p", "t", "i", "o", "n">>, <<"c">>>> >>

\* the characters of a word of text
WordChars(n) ==
    CASE n = "first" -> <<"f", "i", "r", "s", "t">>
      [] n = "second" -> <<"s", "e", "c", "o", "n", "d">>
      [] OTHER -> <<n>>

Expand(t) ==
    CASE t.f = "plain" -> <<t.n>>
      [] t.f = "open" -> <<"[">> \o NameChars(t.n) \o <<"]">>
      [] t.f = "close" -> <<"[", "/">> \o NameChars(t.n) \o <<"]">>
      [] t.f = "self" -> <<"[">> \o NameChars(t.n) \o <<"/", "]">>
      [] t.f = "esc" -> <<"[", "[">> \o NameChars(t.n) \o <<"]", "]">>
      [] t.f = "attr" -> <<"[">> \o NameChars(t.n) \o AttrFormText \o <<"]">>
      [] t.f = "cattr" -> <<"[">> \o NameChars(t.n) \o CaptionFormText \o <<"]">>
      [] t.f = "cself" -> <<"[", "/">> \o NameChars(t.n) \o <<"/", "]">>
      [] t.f = "cextra" -> <<"[", "/">> \o NameChars(t.n) \o <<" ", "x", "]">>
      [] t.f = "cextraself" -> <<"[", "/">> \o NameChars(t.n) \o <<" ", "x", "/", "]">>
      [] t.f = "math" -> latexStart
      [] t.f = "word" -> WordChars(t.n)
      [] t.f = "mathword" -> Slice(latexStart, 0, Len(latexStart) - 1)
      [] OTHER -> <<>>

IsMarkup(t) == t.f \in {"open", "close", "self", "esc", "attr", "cattr"}

IsRegisteredTok(t) == IsMarkup(t) /\ t.n \in RegisteredNames

\* the element html.Parse makes of the start tag of a native element
NativeElement(n) ==
    CASE n = "h1" -> ElementNode(<<"h", "1">>, "", <<>>)
      [] n = "ol" -> ElementNode(<<"o", "l">>, "", <<>>)
      [] n = "li" -> ElementNode(<<"l", "i">>, "", <<>>)
      [] n = "a" -> ElementNode(<<"a">>, "", << <<<<"h", "r", "e", "f">>, <<"u">>>> >>)
      [] n = "img" -> ElementNode(<<"i", "m", "g">>, "", << <<<<"s", "r", "c">>, <<"u">>>> >>)
      [] n = "blockquote" -> ElementNode(<<"b", "l", "o", "c", "k", "q", "u", "o", "t", "e">>, "", <<>>)
      [] n = "pre" -> ElementNode(<<"p", "r", "e">>, "", <<>>)
      [] n = "code" -> ElementNode(<<"c", "o", "d", "e">>, "", <<>>)
      [] OTHER -> ElementNode(<<n>>, "", <<>>)

\* append text to the children of cur, into its last child when that is text
AddText(ns, cur, chars) ==
    LET kids == ns[cur].kids
        lastKid == IF kids = <<>> THEN 0 ELSE kids[Len(kids)]
    IN  IF lastKid # 0 /\ ns[lastKid].type = "text"
        THEN [ns EXCEPT ![lastKid].data = @ \o chars]
        ELSE AppendChild(NewNode(ns, TextNode(chars)), cur, Len(ns) + 1)

AddElement(ns, cur, rec) == AppendChild(NewNode(ns, rec), cur, Len(ns) + 1)

\* The tree of ts[k..] below cur.  With sem = FALSE markup tokens are text
\* (the parser's view); with sem = TRUE the registered ones are the
\* structure they denote (the intended result of the rewriter).
RECURSIVE BuildFrom(_, _, _, _, _)
BuildFrom(ts, k, ns, cur, sem) ==
    IF k > Len(ts) THEN ns
    ELSE
    LET t == ts[k]
        reg == sem /\ IsRegisteredTok(t)
    IN  IF t.f = "eopen"
        THEN BuildFrom(ts, k + 1, AddElement(ns, cur, NativeElement(t.n)),
                       Len(ns) + 1, sem)
        ELSE IF t.f = "void"
        THEN BuildFrom(ts, k + 1, AddElement(ns, cur, NativeElement(t.n)), cur, sem)
        ELSE IF t.f = "eclose"
        THEN BuildFrom(ts, k + 1, ns, ns[cur].parent, sem)
        ELSE IF reg /\ t.f \in {"open", "attr", "cattr"}
        THEN BuildFrom(ts, k + 1,
                       AddElement(ns, cur,
                                  ElementNode(NameChars(t.n), Namespace,
                                              IF t.f = "attr" THEN AttrFormEntries
                                              ELSE IF t.f = "cattr" THEN CaptionFormEntries
                                              ELSE <<>>)),
                       Len(ns) + 1, sem)
        ELSE IF reg /\ t.f = "close"
        THEN BuildFrom(ts, k + 1, ns, ns[cur].parent, sem)
        ELSE IF reg /\ t.f = "self"
        THEN BuildFrom(ts, k + 1,
                       AddElement(ns, cur, ElementNode(NameChars(t.n), Namespace, <<>>)),
                       cur, sem)
        ELSE IF reg /\ t.f = "esc"
        THEN BuildFrom(ts, k + 1,
                       AddText(ns, cur, <<"[">> \o NameChars(t.n) \o <<"]">>),
                       cur, sem)
        ELSE BuildFrom(ts, k + 1, AddText(ns, cur, Expand(t)), cur, sem)

BodyNode == ElementNode(<<"b", "o", "d", "y">>, "", <<>>)

Build(ts) == BuildFrom(ts, 1, <<BodyNode>>, Root, FALSE)

Intended(ts) == BuildFrom(ts, 1, <<BodyNode>>, Root, TRUE)

\* The brackets of ts[k..] match: stack holds the names still open (the
\* names of native elements are none of the registered names).  With
\* sem = FALSE only the native elements count.
RECURSIVE NestedFrom(_, _, _, _)
NestedFrom(ts, k, stack, sem) ==
    IF k > Len(ts) THEN stack = <<>>
    ELSE
    LET t == ts[k]
        reg == sem /\ IsRegisteredTok(t)
        top == IF stack = <<>> THEN "" ELSE stack[Len(stack)]
        pop == SubSeq(stack, 1, Len(stack) - 1)
    IN  IF t.f = "eopen" THEN NestedFrom(ts, k + 1, Append(stack, t.n), sem)
        ELSE IF t.f = "eclose"
        THEN top = t.n /\ NestedFrom(ts, k + 1, pop, sem)
        ELSE IF reg /\ t.f \in {"open", "attr", "cattr"}
        THEN NestedFrom(ts, k + 1, Append(stack, t.n), sem)
        ELSE IF reg /\ t.f = "close"
        THEN top = t.n /\ NestedFrom(ts, k + 1, pop, sem)
        ELSE NestedFrom(ts, k + 1, stack, sem)

\* a token sequence html.Parse can have produced a tree from
WellFormed(ts) == NestedFrom(ts, 1, <<>>, FALSE)

\* shortcode pairs and native elements are properly nested in each other
ProperlyNested(ts) == NestedFrom(ts, 1, <<>>, TRUE)

SeqsUpTo(S, n) == UNION {[1..m -> S] : m \in 0..n}

TreeTokens ==
    {Tok("plain", "a"), Tok("eopen", "b"), Tok("eclose", "b"),
     Tok("open", "caption"), Tok("close", "caption"),
     Tok("open", "latex"), Tok("close", "latex"),
     Tok("self", "latex"), Tok("esc", "caption")}

UnregisteredNames == {"x", "captions"}

LexTokens ==
    {Tok("plain", "a"), Tok("plain", "["), Tok("plain", "/")}
    \cup {Tok(f, n) : f \in {"open", "close", "self", "esc", "attr"},
                      n \in RegisteredNames \cup UnregisteredNames}

Text(str) == [k \in 1..Len(str) |-> Tok("plain", str[k])]

\* a[caption]b[/caption]c
ExamplePair ==
    Text(<<"a">>) \o <<Tok("open", "caption")>> \o Text(<<"b">>)
    \o <<Tok("close", "caption")>> \o Text(<<"c">>)

\* a[caption]b[latex]c[/caption]d[/latex]e
ExampleMismatch ==
    Text(<<"a">>) \o <<Tok("open", "caption")>> \o Text(<<"b">>)
    \o <<Tok("open", "latex")>> \o Text(<<"c">>) \o <<Tok("close", "caption")>>
    \o Text(<<"d">>) \o <<Tok("close", "latex")>> \o Text(<<"e">>)

\* [caption]x[latex]y[/latex]z[/caption]
ExampleNested ==
    <<Tok("open", "caption")>> \o Text(<<"x">>) \o <<Tok("open", "latex")>>
    \o Text(<<"y">>) \o <<Tok("close", "latex")>> \o Text(<<"z">>)
    \o <<Tok("close", "caption")>>

\* <b>[caption]x</b>[/caption]
ExampleUnclosedInChild ==
    <<Tok("eopen", "b"), Tok("open", "caption")>> \o Text(<<"x">>)
    \o <<Tok("eclose", "b"), Tok("close", "caption")>>

\* a[caption id="b" w=d]e[/caption]f
ExampleAttr ==
    Text(<<"a">>) \o <<Tok("attr", "caption")>> \o Text(<<"e">>)
    \o <<Tok("close", "caption")>> \o Text(<<"f">>)

\* a[/caption]b
ExampleEmptyClose ==
    Text(<<"a">>) \o <<Tok("close", "caption")>> \o Text(<<"b">>)

\* [caption]a[latex/]b[/caption]
ExampleSelfInside ==
    <<Tok("open", "caption")>> \o Text(<<"a">>) \o <<Tok("self", "latex")>>
    \o Text(<<"b">>) \o <<Tok("close", "caption")>>

\* [caption]a[/caption/]b, [caption]a[/caption x]b, [caption]a[/caption x/]b
ExampleClosers ==
    {<<Tok("open", "caption")>> \o Text(<<"a">>) \o <<Tok(f, "caption")>> \o Text(<<"b">>) :
        f \in {"cself", "cextra", "cextraself"}}

\* x[[caption]y[/caption]
ExampleBracketBeforeTag ==
    Text(<<"x", "[">>) \o <<Tok("open", "caption")>> \o Text(<<"y">>)
    \o <<Tok("close", "caption")>>

Examples ==
    {ExamplePair, ExampleMismatch, ExampleNested, ExampleUnclosedInChild, ExampleAttr,
     ExampleEmptyClose, ExampleSelfInside, ExampleBracketBeforeTag}
    \cup ExampleClosers

ShortcodeInputs ==
    {ts \in SeqsUpTo(TreeTokens, MaxTok) : WellFormed(ts)}
    \cup SeqsUpTo(LexTokens, MaxLexTok)
    \cup Examples

----------------------------------------------------------------------------
(* ProcessShortcodes.  A frame is one activation of processNode: node, the *)
(* child n the loop is at (0 = nil), the next it read at the loop head and *)
(* its tag stack.  pc is "loop" at the head of processNode's loop, "scan"  *)
(* inside processTextNode, "cleanup" before cleanupTree, "done" after the  *)
(* return.                                                                 *)

NoErr == [kind |-> "none", tag |-> <<>>, open |-> <<>>]

\* ConvertHtmlToMarkdown has not returned
NoRet == [returned |-> FALSE, out |-> <<>>, err |-> NoErr]

\* a function of the shortcode package run on its own: stage "alone"
InitOthers ==
    /\ stage = "alone"
    /\ wr = NewWriter
    /\ ret = NoRet
    /\ saved = <<>>
    /\ calls = <<>>

NoStep == [act |-> "Init", tag |-> <<>>, oc |-> {}, depth |-> 0, top |-> <<>>,
           node |-> 0, at |-> 0, visited |-> {}]

\* a step of a pass: visited keeps the text nodes the pass has entered
Step == [NoStep EXCEPT !.visited = last.visited]

Frame(ns, node) ==
    [node |-> node, n |-> FirstChild(ns, node), next |-> 0, tags |-> <<>>]

TopFrame == frames[Len(frames)]

SetTop(fr) == [frames EXCEPT ![Len(frames)] = fr]

TopTag(tags) == IF tags = <<>> THEN <<>> ELSE tags[Len(tags)].tag

\* `if l := len(tags); l != 0 { newParent = tags[l-1].node }`
NewParent(tags) == IF tags = <<>> THEN 0 ELSE tags[Len(tags)].node

\* mutant: the child is appended to the open tag without leaving its parent
ReparentNoRemove(ns, node, n, newParent) ==
    IF newParent # 0 THEN AppendChild(ns, newParent, n) ELSE ns

\* `reparent the active node if necessary`
Reparent(ns, node, n, newParent) ==
    IF newParent # 0
    THEN AppendChild(RemoveChild(ns, node, n), newParent, n)
    ELSE ns

\* mutant: a closing tag pops whatever is open
closeTagNoCheck(tags, tag) ==
    IF tags = <<>>
    THEN [panic |-> TRUE, err |-> [kind |-> "noopen", tag |-> tag, open |-> <<>>],
          tags |-> tags]
    ELSE [panic |-> FALSE, err |-> NoErr, tags |-> SubSeq(tags, 1, Len(tags) - 1)]

\* `On tag close, pop node and verify that it is correctly matched`.  With
\* an empty stack err is set, nothing returns, and tags[:l-1] is tags[:-1]:
\* a run-time panic.
closeTag(tags, tag) ==
    IF tags = <<>>
    THEN [panic |-> TRUE, err |-> [kind |-> "noopen", tag |-> tag, open |-> <<>>],
          tags |-> tags]
    ELSE IF TopTag(tags) # tag
    THEN [panic |-> FALSE,
          err |-> [kind |-> "unexpected", tag |-> tag, open |-> TopTag(tags)],
          tags |-> tags]
    ELSE [panic |-> FALSE, err |-> NoErr, tags |-> SubSeq(tags, 1, Len(tags) - 1)]

\* `On tag open, push new node onto tag stack`
openTag(ns, node, next, tags, tag, rest) ==
    LET withTag == NewNode(ns, ElementNode(tag, Namespace, parseAttrs(rest)))
        tagnode == Len(withTag)
    IN  [ns |-> InsertBefore(withTag, ns[node].parent, tagnode, next),
         tags |-> Append(tags, [tag |-> tag, node |-> tagnode])]

handleShortcode(ns, node, tags, tagStart, tagEnd, openClose, tag, rest) ==
    LET split == splitTextNode(ns, node, tagStart, tagEnd)
        next == split.node
        opened == IF tagOpen \in openClose
                  THEN openTag(split.ns, node, next, tags, tag, rest)
                  ELSE [ns |-> split.ns, tags |-> tags]
        closed == IF tagClose \in openClose
                  THEN closeTag(opened.tags, tag)
                  ELSE [panic |-> FALSE, err |-> NoErr, tags |-> opened.tags]
    IN  [ns |-> opened.ns, tags |-> closed.tags, next |-> next,
         err |-> closed.err, panic |-> closed.panic]

\* mutant: tags left open at the end of the children are not reported
endOfChildrenNoCheck(tags) == NoErr

\* `if len(tags) != 0 { err = fmt.Errorf("shortcodes still open ...") }`
endOfChildren(tags) ==
    IF Len(tags) # 0
    THEN [kind |-> "stillopen", tag |-> <<>>, open |-> [k \in 1..Len(tags) |-> tags[k].tag]]
    ELSE NoErr

\* History: what a step met.  "mismatch": a closing tag other than the
\* innermost open one; "emptyclose": a closing tag while nothing is open;
\* "endopen": the end of a child list with tags still open.
Events == {"mismatch", "emptyclose", "endopen"}

CloserEvents(tags, openClose, tag) ==
    IF tagClose \in openClose /\ tagOpen \notin openClose
    THEN IF tags = <<>> THEN {"emptyclose"}
         ELSE IF TopTag(tags) # tag THEN {"mismatch"}
         ELSE {}
    ELSE {}

\* the position of the next '[' at or after i in the text, -1 when none: the
\* iterations of processTextNode's loop that take the default case
NextBracket(data, i) == IndexFrom(data, "[", i)

Scanning == pc = "scan" /\ result = "running"

ScanData == nodes[TopFrame.n].data

ScanAt == NextBracket(ScanData, scanPos)

\* what parseShortcode says of the text after the next '['
ScanLex == parseShortcode(From(ScanData, ScanAt + 1))

Fail(kind, e) ==
    /\ result' = kind
    /\ err' = e
    /\ pc' = "done"

\* the loop head on a text child: next is read, processTextNode is entered
LoopText ==
    /\ pc = "loop" /\ result = "running"
    /\ TopFrame.n # 0
    /\ nodes[TopFrame.n].type = "text"
    /\ frames' = SetTop([TopFrame EXCEPT !.next = NextSibling(nodes, TopFrame.n)])
    /\ pc' = "scan"
    /\ scanPos' = 0
    /\ last' = [Step EXCEPT !.act = "LoopText", !.visited = @ \cup {TopFrame.n}, !.node = TopFrame.n]
    /\ UNCHANGED <<toks, nodes, result, err, seen, attrs, attrPos, keyIdx, attrOut>>
    /\ UNCHANGED others

\* the loop head on an element child: processNode(n) is entered
LoopElement ==
    /\ pc = "loop" /\ result = "running"
    /\ TopFrame.n # 0
    /\ nodes[TopFrame.n].type = "element"
    /\ frames' = Append(SetTop([TopFrame EXCEPT !.next = NextSibling(nodes, TopFrame.n)]),
                        Frame(nodes, TopFrame.n))
    /\ last' = [Step EXCEPT !.act = "LoopElement", !.node = TopFrame.n]
    /\ UNCHANGED <<toks, nodes, pc, scanPos, result, err, seen,
                   attrs, attrPos, keyIdx, attrOut>>
    /\ UNCHANGED others

\* lines 72-78 for the child n of the top frame, then n = next
AfterChild(ns, fr, tagsOut, next) ==
    LET ns1 == Reparent(ns, fr.node, fr.n, NewParent(fr.tags))
    IN  IF ns1 = Bad
        THEN /\ Fail("panic", NoErr)
             /\ UNCHANGED <<nodes, frames>>
        ELSE /\ nodes' = ns1
             /\ frames' = SetTop([fr EXCEPT !.n = next, !.next = 0, !.tags = tagsOut])
             /\ pc' = "loop"
             /\ UNCHANGED <<result, err>>

\* processTextNode finds no further '[': `default: no shortcode found`
ScanEnd ==
    /\ Scanning
    /\ ScanAt = -1
    /\ AfterChild(nodes, TopFrame, TopFrame.tags, NextSibling(nodes, TopFrame.n))
    /\ last' = [Step EXCEPT !.act = "ScanEnd", !.node = TopFrame.n]
    /\ UNCHANGED <<toks, scanPos, seen, attrs, attrPos, keyIdx, attrOut>>
    /\ UNCHANGED others

\* a '[' that parseShortcode cannot even look at: the slice of the name
\* runs past the end of the text
ScanPanic ==
    /\ Scanning
    /\ ScanAt # -1
    /\ ScanLex.panic
    /\ Fail("panic", NoErr)
    /\ last' = [Step EXCEPT !.act = "ScanPanic", !.node = TopFrame.n, !.at = ScanAt]
    /\ UNCHANGED <<toks, nodes, frames, scanPos, seen, attrs, attrPos, keyIdx, attrOut>>
    /\ UNCHANGED others

\* mutant: the scan stays at a '[' that starts no tag
ScanNotTagStays ==
    /\ Scanning
    /\ ScanAt # -1
    /\ ~ScanLex.panic
    /\ ScanLex.size = 0
    /\ scanPos' = ScanAt
    /\ last' = [Step EXCEPT !.act = "ScanNotTag", !.node = TopFrame.n, !.at = ScanAt]
    /\ UNCHANGED <<toks, nodes, frames, pc, result, err, seen,
                   attrs, attrPos, keyIdx, attrOut>>
    /\ UNCHANGED others

\* a '[' that starts no tag: size = 0, `i += rsize`
ScanNotTag ==
    /\ Scanning
    /\ ScanAt # -1
    /\ ~ScanLex.panic
    /\ ScanLex.size = 0
    /\ scanPos' = ScanAt + 1
    /\ last' = [Step EXCEPT !.act = "ScanNotTag", !.node = TopFrame.n, !.at = ScanAt]
    /\ UNCHANGED <<toks, nodes, frames, pc, result, err, seen,
                   attrs, attrPos, keyIdx, attrOut>>
    /\ UNCHANGED others

\* an escape code: `remove the outer [] and continue`
ScanEscape ==
    /\ Scanning
    /\ ScanAt # -1
    /\ ~ScanLex.panic
    /\ ScanLex.size # 0
    /\ ScanLex.tag = <<>>
    /\ nodes' = [nodes EXCEPT ![TopFrame.n].data =
                    Slice(@, 0, ScanAt) \o ScanLex.rest \o From(@, ScanAt + 1 + ScanLex.size)]
    /\ scanPos' = ScanAt + Len(ScanLex.rest)
    /\ last' = [Step EXCEPT !.act = "ScanEscape", !.node = TopFrame.n, !.at = ScanAt]
    /\ UNCHANGED <<toks, frames, pc, result, err, seen,
                   attrs, attrPos, keyIdx, attrOut>>
    /\ UNCHANGED others

\* a shortcode: handleShortcode, and back in processNode the reparenting
ScanShortcode ==
    /\ Scanning
    /\ ScanAt # -1
    /\ ~ScanLex.panic
    /\ ScanLex.size # 0
    /\ ScanLex.tag # <<>>
    /\ LET fr == TopFrame
           lex == ScanLex
           h == handleShortcode(nodes, fr.n, fr.tags, ScanAt, ScanAt + 1 + lex.size,
                                lex.openClose, lex.tag, lex.rest)
       IN  /\ last' = [act |-> "ScanShortcode", tag |-> lex.tag, oc |-> lex.openClose,
                       depth |-> Len(fr.tags), top |-> TopTag(fr.tags),
                       node |-> fr.n, at |-> ScanAt, visited |-> last.visited]
           /\ IF h.panic \/ h.ns = Bad
              THEN /\ Fail("panic", NoErr)
                   /\ UNCHANGED <<nodes, frames>>
              ELSE IF h.err # NoErr
              THEN /\ Fail("error", h.err)
                   /\ nodes' = h.ns
                   /\ UNCHANGED frames
              ELSE AfterChild(h.ns, fr, h.tags, h.next)
           /\ seen' = seen \cup CloserEvents(fr.tags, lex.openClose, lex.tag)
    /\ UNCHANGED <<toks, scanPos, attrs, attrPos, keyIdx, attrOut>>
    /\ UNCHANGED others

\* processNode(n) of an element child returns to the caller's loop
ElemReturn ==
    /\ pc = "loop" /\ result = "running"
    /\ TopFrame.n = 0
    /\ Len(frames) > 1
    /\ seen' = (IF TopFrame.tags # <<>> THEN seen \cup {"endopen"} ELSE seen)
    /\ last' = [Step EXCEPT !.act = "ElemReturn", !.node = TopFrame.node,
                              !.depth = Len(TopFrame.tags)]
    /\ LET e == endOfChildren(TopFrame.tags)
           caller == frames[Len(frames) - 1]
           ns1 == Reparent(nodes, caller.node, caller.n, NewParent(caller.tags))
       IN  IF e # NoErr
           THEN /\ Fail("error", e)
                /\ UNCHANGED <<nodes, frames>>
           ELSE IF ns1 = Bad
           THEN /\ Fail("panic", NoErr)
                /\ UNCHANGED <<nodes, frames>>
           ELSE /\ nodes' = ns1
                /\ frames' = [SubSeq(frames, 1, Len(frames) - 1)
                                 EXCEPT ![Len(frames) - 1] =
                                     [caller EXCEPT !.n = caller.next, !.next = 0]]
                /\ UNCHANGED <<pc, result, err>>
    /\ UNCHANGED <<toks, scanPos, attrs, attrPos, keyIdx, attrOut>>
    /\ UNCHANGED others

\* processNode(root) returns to ProcessShortcodes
RootReturn ==
    /\ pc = "loop" /\ result = "running"
    /\ TopFrame.n = 0
    /\ Len(frames) = 1
    /\ seen' = (IF TopFrame.tags # <<>> THEN seen \cup {"endopen"} ELSE seen)
    /\ last' = [Step EXCEPT !.act = "RootReturn", !.node = TopFrame.node,
                              !.depth = Len(TopFrame.tags)]
    /\ LET e == endOfChildren(TopFrame.tags)
       IN  IF e # NoErr
           THEN Fail("error", e)
           ELSE /\ pc' = "cleanup"
                /\ UNCHANGED <<result, err>>
    /\ UNCHANGED <<toks, nodes, frames, scanPos, attrs, attrPos, keyIdx, attrOut>>
    /\ UNCHANGED others

\* cleanupTree(node); return nil
Cleanup ==
    /\ pc = "cleanup" /\ result = "running"
    /\ LET ns1 == cleanupTree(nodes, Root)
       IN  IF ns1 = Bad
           THEN /\ Fail("panic", NoErr)
                /\ UNCHANGED nodes
           ELSE /\ nodes' = ns1
                /\ result' = "ok"
                /\ pc' = "done"
                /\ UNCHANGED err
    /\ last' = [Step EXCEPT !.act = "Cleanup", !.node = Root]
    /\ UNCHANGED <<toks, frames, scanPos, seen, attrs, attrPos, keyIdx, attrOut>>
    /\ UNCHANGED others

Init ==
    /\ InitOthers
    /\ toks \in ShortcodeInputs
    /\ nodes = Build(toks)
    /\ frames = <<Frame(nodes, Root)>>
    /\ pc = "loop"
    /\ scanPos = 0
    /\ result = "running"
    /\ err = NoErr
    /\ last = NoStep
    /\ seen = {}
    /\ attrs = <<>>
    /\ attrPos = 0
    /\ keyIdx = 0
    /\ attrOut = <<>>

Next ==
    \/ LoopText
    \/ LoopElement
    \/ ScanEnd
    \/ ScanPanic
    \/ ScanNotTag
    \/ ScanEscape
    \/ ScanShortcode
    \/ ElemReturn
    \/ RootReturn
    \/ Cleanup

Spec == Init /\ [][Next]_vars

----------------------------------------------------------------------------
(* Properties of ProcessShortcodes, checked under Spec.                    *)

Done == pc = "done"

FinalTree == Ser(nodes, Root)

Count(ts, P(_)) == Cardinality({k \in 1..Len(ts) : P(ts[k])})

IsOpener(t) == IsRegisteredTok(t) /\ t.f \in {"open", "attr"}

IsCloser(t) == IsRegisteredTok(t) /\ t.f = "close"

IsSelfClosing(t) == IsRegisteredTok(t) /\ t.f = "self"

IsLoneBracket(t) == t.f = "plain" /\ t.n \in {"[", "]", "/"}

\* one well-formed pair of a block tag in one sibling sequence, and no
\* other tag of the registry opened or closed anywhere
OnePair(ts) ==
    /\ ProperlyNested(ts)
    /\ Count(ts, IsOpener) = 1
    /\ Count(ts, IsCloser) = 1
    /\ Count(ts, IsSelfClosing) = 0
    /\ Count(ts, IsLoneBracket) = 0

TextOf(str) == [type |-> "text", data |-> str, ns |-> "", attr |-> <<>>, kids |-> <<>>]

WpElement(name, attr, kids) ==
    [type |-> "element", data |-> name, ns |-> Namespace, attr |-> attr, kids |-> kids]

BodyOf(kids) ==
    [type |-> "element", data |-> BodyNode.data, ns |-> "", attr |-> <<>>, kids |-> kids]

\* C1: on a sibling sequence with one well-formed block-tag pair
\* ProcessShortcodes succeeds, and the result is the nodes before the open
\* marker, one wp element named after the tag holding the nodes that lay
\* between the markers, and the nodes after the close marker, all in order.
C1_OnePairBecomesElement ==
    OnePair(toks) =>
        /\ result \in {"running", "ok"}
        /\ result = "ok" => FinalTree = Ser(Intended(toks), Root)

\* a[caption]b[/caption]c has become a, <caption>b</caption>, c
C1_Witness ==
    /\ toks = ExamplePair
    /\ result = "ok"
    /\ FinalTree = BodyOf(<<TextOf(<<"a">>),
                            WpElement(CAPTION, <<>>, <<TextOf(<<"b">>)>>),
                            TextOf(<<"c">>)>>)

\* C2: a closing tag that differs from the innermost open tag makes
\* ProcessShortcodes return an error that names the closer; nothing is
\* popped, and success is never reported afterwards.
C2_MismatchedCloserIsError ==
    "mismatch" \in seen =>
        /\ result = "error"
        /\ err.kind = "unexpected"
        /\ err.tag = last.tag
        /\ err.open = last.top
        /\ Len(TopFrame.tags) = last.depth
        /\ TopTag(TopFrame.tags) = last.top

\* a[caption]b[latex]c[/caption]d[/latex]e stopped at [/caption]
C2_Witness ==
    /\ toks = ExampleMismatch
    /\ "mismatch" \in seen
    /\ result = "error"
    /\ err.tag = CAPTION
    /\ err.open = LATEX

\* C3: a closing tag met while the stack of the current element is empty
\* makes ProcessShortcodes return an error value; it does not crash.
C3_CloserOnEmptyStackIsError ==
    "emptyclose" \in seen => result = "error"

\* a[/caption]b: the run ends in the run-time panic of tags[:l-1] with l = 0
C3_Witness ==
    /\ toks = ExampleEmptyClose
    /\ "emptyclose" \in seen
    /\ result = "panic"

\* C4: the stack belongs to one element's child list.  A child list that
\* ends with a tag still open makes ProcessShortcodes return an error; a
\* successful run has seen no such end; processNode starts on an element
\* with an empty stack.
C4_OpenAtEndIsError ==
    /\ "endopen" \in seen => (result = "error" /\ err.kind = "stillopen")
    /\ result = "ok" => "endopen" \notin seen
    /\ last.act = "LoopElement" => TopFrame.tags = <<>>

\* <b>[caption]x</b>[/caption]: the error is raised at the end of <b>
C4_Witness ==
    /\ toks = ExampleUnclosedInChild
    /\ "endopen" \in seen
    /\ result = "error"
    /\ Len(frames) = 2
    /\ err.open = <<CAPTION>>

\* no self-closing tag, more than one opener
NestedPairs(ts) ==
    /\ ProperlyNested(ts)
    /\ Count(ts, IsOpener) > 1
    /\ Count(ts, IsSelfClosing) = 0
    /\ Count(ts, IsLoneBracket) = 0

\* C5: with properly nested block tags ProcessShortcodes succeeds and the
\* element of an inner tag ends up inside the element of the outer tag, in
\* document order, not beside it.
C5_NestedTagsNest ==
    NestedPairs(toks) =>
        /\ result \in {"running", "ok"}
        /\ result = "ok" => FinalTree = Ser(Intended(toks), Root)

\* [caption]x[latex]y[/latex]z[/caption]: the run succeeds with the latex
\* element beside the caption element
C5_Witness ==
    /\ toks = ExampleNested
    /\ result = "ok"
    /\ FinalTree = BodyOf(<<WpElement(CAPTION, <<>>, <<TextOf(<<"x">>), TextOf(<<"z">>)>>),
                            WpElement(LATEX, <<>>, <<TextOf(<<"y">>)>>)>>)

\* at most one pair, and at least one self-closing tag
SelfClosingOnly(ts) ==
    /\ ProperlyNested(ts)
    /\ Count(ts, IsOpener) <= 1
    /\ Count(ts, IsSelfClosing) > 0
    /\ Count(ts, IsLoneBracket) = 0

\* C6: a self-closing tag yields one element without children, leaves the
\* stack as it was, and what follows the tag stays beside the new element.
C6_SelfClosingInPlace ==
    SelfClosingOnly(toks) =>
        /\ result \in {"running", "ok"}
        /\ result = "ok" => FinalTree = Ser(Intended(toks), Root)

\* [caption]a[latex/]b[/caption]: the latex element is left beside the
\* caption element, the text after it is moved into the caption element
C6_Witness ==
    /\ toks = ExampleSelfInside
    /\ result = "ok"
    /\ FinalTree = BodyOf(<<WpElement(CAPTION, <<>>, <<TextOf(<<"a">>), TextOf(<<"b">>)>>),
                            WpElement(LATEX, <<>>, <<>>)>>)

\* the escape form of a registered name stands at position at of the text
EscapeAt(data, at, n) == HasPrefixAt(data, Expand(Tok("esc", n)), at)

Literal(n) == <<"[">> \o NameChars(n) \o <<"]">>

\* C7: the escape form [[tag]] of a registered tag is replaced in place by
\* the literal [tag]: no node is created, the text node is not split, the
\* stack is unchanged, and the scan resumes just past the literal.
C7_EscapeReplacedInPlace ==
    [][\A n \in RegisteredNames :
          (Scanning /\ ScanAt # -1 /\ EscapeAt(ScanData, ScanAt, n)) =>
              /\ nodes' = [nodes EXCEPT ![TopFrame.n].data =
                              Slice(@, 0, ScanAt) \o Literal(n)
                              \o From(@, ScanAt + Len(NameChars(n)) + 4)]
              /\ frames' = frames
              /\ scanPos' = ScanAt + Len(Literal(n))
              /\ pc' = "scan"
              /\ result' = "running"]_vars

\* a[[wp_caption]] has become the one text node a[wp_caption]
C7_Witness ==
    /\ toks = <<Tok("plain", "a"), Tok("esc", "wp_caption")>>
    /\ result = "ok"
    /\ FinalTree = BodyOf(<<TextOf(<<"a">> \o Literal("wp_caption"))>>)

IsUnregisteredTok(t) ==
    \/ t.f \in {"eopen", "eclose"}
    \/ t.f = "plain" /\ ~IsLoneBracket(t)
    \/ IsMarkup(t) /\ t.n \in UnregisteredNames

UnregisteredOnly(ts) == \A k \in 1..Len(ts) : IsUnregisteredTok(ts[k])

\* C8: a bracketed name that is not in the registry is no markup: the run
\* succeeds and the tree stays, at every step, the tree that was parsed.
C8_UnregisteredUntouched ==
    UnregisteredOnly(toks) =>
        /\ result \in {"running", "ok"}
        /\ Ser(nodes, Root) = Ser(Build(toks), Root)

\* [x id="b" w=d][[captions]] came through unchanged
C8_Witness ==
    /\ toks = <<Tok("attr", "x"), Tok("esc", "captions")>>
    /\ result = "ok"
    /\ FinalTree = BodyOf(<<TextOf(Expand(Tok("attr", "x")) \o Expand(Tok("esc", "captions")))>>)

----------------------------------------------------------------------------
(* parseAttrs on its own, one loop iteration a step (SpecAttrs).  The      *)
(* attribute text is written as a sequence of items: an item is the text   *)
(* of one entry, the separator in front of it and the entry it stands for. *)
(* kind "ws" is white space that stands for no entry.                      *)

Item(sep, text, kind, key, val, closed, unquoted, quote0) ==
    [sep |-> sep, text |-> text, kind |-> kind, key |-> key, val |-> val,
     closed |-> closed, unquoted |-> unquoted, quote0 |-> quote0]

\* the entries without their separator: text, kind, key, value, whether
\* the text ends with its closing quote, whether it is an unquoted
\* key=value, whether it starts with a quote character
AttrEntries ==
    { Item(<<>>, <<"b">>, "positional", <<>>, <<"b">>, FALSE, FALSE, FALSE),
      Item(<<>>, <<"\"", "c", " ", "d", "\"">>, "positional", <<>>, <<"c", " ", "d">>,
           TRUE, FALSE, TRUE),
      Item(<<>>, <<"'", "h", "i">>, "positional", <<>>, <<"'", "h", "i">>,
           FALSE, FALSE, TRUE),
      Item(<<>>, <<"d", "=", "\"", "'", "\"">>, "keyvalue", <<"d">>, <<"'">>,
           TRUE, FALSE, FALSE),
      Item(<<>>, <<"e", "=", "'", "\"", "'">>, "keyvalue", <<"e">>, <<"\"">>,
           TRUE, FALSE, FALSE),
      Item(<<>>, <<"f", "=", "g">>, "keyvalue", <<"f">>, <<"g">>, FALSE, TRUE, FALSE),
      Item(<<>>, <<"k", " ", "=", " ", "v">>, "keyvalue", <<"k">>, <<"v">>,
           FALSE, TRUE, FALSE),
      Item(<<>>, <<" ">>, "ws", <<>>, <<>>, FALSE, FALSE, FALSE) }

AttrItems == {[e EXCEPT !.sep = sp] : e \in AttrEntries, sp \in {<<>>, <<" ">>}}

\* an item may follow another without white space only where the grammar
\* ends the earlier one by itself: after a closing quote, or where an
\* unquoted value runs into a quote character
Separated(prev, next) ==
    \/ next.sep # <<>>
    \/ next.kind = "ws"
    \/ prev.kind = "ws"
    \/ prev.closed
    \/ prev.unquoted /\ next.quote0

AttrWellFormed(its) == \A k \in 2..Len(its) : Separated(its[k - 1], its[k])

Pos(text, val) == Item(<<" ">>, text, "positional", <<>>, val, FALSE, FALSE, FALSE)

KV(sep, text, key, val) == Item(sep, text, "keyvalue", key, val, FALSE, FALSE, FALSE)

\* ` b "c" d="'" e='"' f=g'hi`
AttrExample1 ==
    << Pos(<<"b">>, <<"b">>),
       Pos(<<"\"", "c", "\"">>, <<"c">>),
       KV(<<" ">>, <<"d", "=", "\"", "'", "\"">>, <<"d">>, <<"'">>),
       KV(<<" ">>, <<"e", "=", "'", "\"", "'">>, <<"e">>, <<"\"">>),
       KV(<<" ">>, <<"f", "=", "g">>, <<"f">>, <<"g">>),
       Item(<<>>, <<"'", "h", "i">>, "positional", <<>>, <<"'", "h", "i">>,
            FALSE, FALSE, TRUE) >>

\* ` id="b" align='c' width=d`
AttrExample2 ==
    << KV(<<" ">>, <<"i", "d", "=", "\"", "b", "\"">>, <<"i", "d">>, <<"b">>),
       KV(<<" ">>, <<"a", "l", "i", "g", "n", "=", "'", "c", "'">>,
          <<"a", "l", "i", "g", "n">>, <<"c">>),
       KV(<<" ">>, <<"w", "i", "d", "t", "h", "=", "d">>,
          <<"w", "i", "d", "t", "h">>, <<"d">>) >>

AttrInputs ==
    {its \in SeqsUpTo(AttrItems, MaxAttrTok) : AttrWellFormed(its)}
    \cup {AttrExample1, AttrExample2}

RECURSIVE AttrText(_)
AttrText(its) ==
    IF its = <<>> THEN <<>>
    ELSE its[1].sep \o its[1].text \o AttrText(Tail(its))

AttrRunning == pc = "attrs" /\ result = "running"

AttrNow == attrStep(attrs, attrPos, keyIdx, Len(attrOut))

AttrTake ==
    /\ attrPos' = AttrNow.pos
    /\ keyIdx' = AttrNow.keyIdx
    /\ attrOut' = Append(attrOut, AttrNow.entry)
    /\ last' = [NoStep EXCEPT !.act = AttrNow.kind, !.at = attrPos]
    /\ UNCHANGED <<toks, nodes, frames, pc, scanPos, result, err, seen, attrs>>
    /\ UNCHANGED others

\* an iteration that appends a key=value entry
AttrKeyValue ==
    /\ AttrRunning
    /\ attrPos < Len(attrs)
    /\ AttrNow.kind = "keyvalue"
    /\ AttrTake

\* an iteration that appends a positional entry
AttrPositional ==
    /\ AttrRunning
    /\ attrPos < Len(attrs)
    /\ AttrNow.kind = "positional"
    /\ AttrTake

\* the iteration that finds only white space left: `break`
AttrBreak ==
    /\ AttrRunning
    /\ attrPos < Len(attrs)
    /\ AttrNow.kind = "break"
    /\ attrPos' = AttrNow.pos
    /\ pc' = "done"
    /\ result' = "ok"
    /\ last' = [NoStep EXCEPT !.act = "break", !.at = attrPos]
    /\ UNCHANGED <<toks, nodes, frames, scanPos, err, seen, attrs, keyIdx, attrOut>>
    /\ UNCHANGED others

\* the loop condition pos < len(attrs) fails
AttrExit ==
    /\ AttrRunning
    /\ attrPos >= Len(attrs)
    /\ pc' = "done"
    /\ result' = "ok"
    /\ last' = [NoStep EXCEPT !.act = "exit", !.at = attrPos]
    /\ UNCHANGED <<toks, nodes, frames, scanPos, err, seen, attrs, attrPos, keyIdx, attrOut>>
    /\ UNCHANGED others

InitAttrs ==
    /\ InitOthers
    /\ toks \in AttrInputs
    /\ attrs = AttrText(toks)
    /\ attrPos = 0
    /\ keyIdx = 0
    /\ attrOut = <<>>
    /\ pc = "attrs"
    /\ result = "running"
    /\ nodes = <<>>
    /\ frames = <<>>
    /\ scanPos = 0
    /\ err = NoErr
    /\ last = NoStep
    /\ seen = {}

NextAttrs == AttrKeyValue \/ AttrPositional \/ AttrBreak \/ AttrExit

SpecAttrs == InitAttrs /\ [][NextAttrs]_vars

\* the entries the first k items stand for, positional ones keyed by their
\* number among the positional ones
RECURSIVE WantedEntries(_, _, _)
WantedEntries(its, k, npos) ==
    IF k > Len(its) THEN <<>>
    ELSE IF its[k].kind = "ws" THEN WantedEntries(its, k + 1, npos)
    ELSE IF its[k].kind = "positional"
    THEN << <<(<<"@">> \o Itoa(npos)), its[k].val>> >> \o WantedEntries(its, k + 1, npos + 1)
    ELSE << <<its[k].key, its[k].val>> >> \o WantedEntries(its, k + 1, npos)

IsPrefix(a, b) == Len(a) <= Len(b) /\ a = SubSeq(b, 1, Len(a))

\* C9: the attribute lexer returns the entries in input order: a key=value
\* entry with its key and the quoted contents or the unquoted run as value,
\* anything else as a positional entry keyed @0, @1, ... in the order met,
\* counting the positional entries only.
C9_AttrEntriesInOrder ==
    pc \in {"attrs", "done"} =>
        /\ IsPrefix(attrOut, WantedEntries(toks, 1, 0))
        /\ pc = "done" => attrOut = WantedEntries(toks, 1, 0)
        /\ result \in {"running", "ok"}

\* ` b "c" d="'" e='"' f=g'hi` gave @0=b, @1=c, d=', e=", f=g, @2='hi
C9_Witness ==
    /\ toks = AttrExample1
    /\ pc = "done"
    /\ attrOut = << <<<<"@", "0">>, <<"b">>>>, <<<<"@", "1">>, <<"c">>>>,
                    <<<<"d">>, <<"'">>>>, <<<<"e">>, <<"\"">>>>,
                    <<<<"f">>, <<"g">>>>, <<<<"@", "2">>, <<"'", "h", "i">>>> >>

----------------------------------------------------------------------------
(* ProcessWpLatex, one child of processLatexNode's loop a step (SpecLatex). *)
(* frames is the call stack of processLatexNode; pc is "latex" in the loop *)
(* and "done" after cleanupTree.                                           *)

\* mutant: a backslash does not skip the character after it
latexSpanEndNoEscape(data, end) == IndexFrom(data, "$", end)

\* the scan for the end "$" marker from position end: the value of end
\* when the loop stops (len(data) or more when there is no marker)
RECURSIVE latexSpanEnd(_, _)
latexSpanEnd(data, end) ==
    IF end < Len(data) /\ At(data, end) # "$"
    THEN latexSpanEnd(data, IF At(data, end) = "\\" THEN end + 2 ELSE end + 1)
    ELSE end

\* mutant: the inner text is stored without its backslashes
latexInsertDropsBackslashes(ns, node, i, innerStart, innerEnd) ==
    LET withTag == NewNode(ns, ElementNode(LATEX, Namespace, <<>>))
        tagnode == Len(withTag)
        withText == NewNode(withTag,
                            TextNode(SelectSeq(Slice(ns[node].data, innerStart, innerEnd),
                                               LAMBDA c : c # "\\")))
        linked == AppendChild(withText, tagnode, Len(withText))
        split == splitTextNode(linked, node, i, innerEnd + 1)
    IN  [ns |-> InsertBefore(split.ns, ns[node].parent, tagnode, split.node),
         next |-> split.node]

\* lines 157-174: the tag node with its text child, the split, the insert
latexInsert(ns, node, i, innerStart, innerEnd) ==
    LET withTag == NewNode(ns, ElementNode(LATEX, Namespace, <<>>))
        tagnode == Len(withTag)
        withText == NewNode(withTag, TextNode(Slice(ns[node].data, innerStart, innerEnd)))
        linked == AppendChild(withText, tagnode, Len(withText))
        split == splitTextNode(linked, node, i, innerEnd + 1)
    IN  [ns |-> InsertBefore(split.ns, ns[node].parent, tagnode, split.node),
         next |-> split.node]

latexSpan(ns, node, i, end) ==
    IF end >= 0 /\ end < Len(ns[node].data)
    THEN latexInsert(ns, node, i, i + Len(latexStart), end)
    ELSE [ns |-> ns, next |-> NextSibling(ns, node)]

processLatexTextNode(ns, node) ==
    IF IndexStr(ns[node].data, latexStart) # -1
    THEN latexSpan(ns, node, IndexStr(ns[node].data, latexStart),
                   latexSpanEnd(ns[node].data,
                                IndexStr(ns[node].data, latexStart) + Len(latexStart)))
    ELSE [ns |-> ns, next |-> NextSibling(ns, node)]

LatexTokens ==
    { Tok("plain", "a"), Tok("plain", "$"), Tok("plain", "\\"),
      Tok("math", ""), Tok("mathword", ""), Tok("eopen", "b"), Tok("eclose", "b") }

\* `a $latex b$ c $latex d`
LatexExampleOpen ==
    Text(<<"a", " ">>) \o <<Tok("math", "")>> \o Text(<<"b", "$", " ", "c", " ">>)
    \o <<Tok("math", "")>> \o Text(<<"d">>)

\* `a $latex b$ c $latex d$`
LatexExampleTwo == LatexExampleOpen \o Text(<<"$">>)

LatexInputs ==
    {ts \in SeqsUpTo(LatexTokens, MaxLatexTok) : WellFormed(ts)}
    \cup {LatexExampleOpen, LatexExampleTwo}

LatexRunning == pc = "latex" /\ result = "running"

\* a text child: next = processLatexTextNode(n); n = next
LatexText ==
    /\ LatexRunning
    /\ TopFrame.n # 0
    /\ nodes[TopFrame.n].type = "text"
    /\ LET r == processLatexTextNode(nodes, TopFrame.n)
       IN  IF r.ns = Bad
           THEN /\ Fail("panic", NoErr)
                /\ UNCHANGED <<nodes, frames>>
           ELSE /\ nodes' = r.ns
                /\ frames' = SetTop([TopFrame EXCEPT !.n = r.next])
                /\ UNCHANGED <<pc, result, err>>
    /\ last' = [Step EXCEPT !.act = "LatexText", !.visited = @ \cup {TopFrame.n}, !.node = TopFrame.n]
    /\ UNCHANGED <<toks, scanPos, seen, attrs, attrPos, keyIdx, attrOut>>
    /\ UNCHANGED others

\* an element child: processLatexNode(n) is entered
LatexElement ==
    /\ LatexRunning
    /\ TopFrame.n # 0
    /\ nodes[TopFrame.n].type = "element"
    /\ frames' = Append(SetTop([TopFrame EXCEPT !.next = NextSibling(nodes, TopFrame.n)]),
                        Frame(nodes, TopFrame.n))
    /\ last' = [Step EXCEPT !.act = "LatexElement", !.node = TopFrame.n]
    /\ UNCHANGED <<toks, nodes, pc, scanPos, result, err, seen,
                   attrs, attrPos, keyIdx, attrOut>>
    /\ UNCHANGED others

\* processLatexNode(n) of an element child returns: n = next
LatexElemReturn ==
    /\ LatexRunning
    /\ TopFrame.n = 0
    /\ Len(frames) > 1
    /\ frames' = [SubSeq(frames, 1, Len(frames) - 1)
                     EXCEPT ![Len(frames) - 1] =
                         [frames[Len(frames) - 1]
                             EXCEPT !.n = frames[Len(frames) - 1].next, !.next = 0]]
    /\ last' = [Step EXCEPT !.act = "LatexElemReturn", !.node = TopFrame.node]
    /\ UNCHANGED <<toks, nodes, pc, scanPos, result, err, seen,
                   attrs, attrPos, keyIdx, attrOut>>
    /\ UNCHANGED others

\* processLatexNode(node) returns to ProcessWpLatex: cleanupTree(node)
LatexCleanup ==
    /\ LatexRunning
    /\ TopFrame.n = 0
    /\ Len(frames) = 1
    /\ LET ns1 == cleanupTree(nodes, Root)
       IN  IF ns1 = Bad
           THEN /\ Fail("panic", NoErr)
                /\ UNCHANGED nodes
           ELSE /\ nodes' = ns1
                /\ result' = "ok"
                /\ pc' = "done"
                /\ UNCHANGED err
    /\ last' = [Step EXCEPT !.act = "LatexCleanup", !.node = Root]
    /\ UNCHANGED <<toks, frames, scanPos, seen, attrs, attrPos, keyIdx, attrOut>>
    /\ UNCHANGED others

InitLatex ==
    /\ InitOthers
    /\ toks \in LatexInputs
    /\ nodes = Build(toks)
    /\ frames = <<Frame(nodes, Root)>>
    /\ pc = "latex"
    /\ scanPos = 0
    /\ result = "running"
    /\ err = NoErr
    /\ last = NoStep
    /\ seen = {}
    /\ attrs = <<>>
    /\ attrPos = 0
    /\ keyIdx = 0
    /\ attrOut = <<>>

NextLatex == LatexText \/ LatexElement \/ LatexElemReturn \/ LatexCleanup

SpecLatex == InitLatex /\ [][NextLatex]_vars

\* position j of text is escaped: the character before it is a backslash
\* that is not escaped itself (s is where the span's contents start)
RECURSIVE Escaped(_, _, _)
Escaped(text, s, j) ==
    j > s /\ At(text, j - 1) = "\\" /\ ~Escaped(text, s, j - 1)

Markers(text) == {i \in 0..(Len(text) - 1) : HasPrefixAt(text, latexStart, i)}

Terminators(text, s) ==
    {e \in s..(Len(text) - 1) : At(text, e) = "$" /\ ~Escaped(text, s, e)}

Least(S) == CHOOSE x \in S : \A y \in S : x <= y

MathOf(inner) ==
    WpElement(LATEX, <<>>, IF inner = <<>> THEN <<>> ELSE <<TextOf(inner)>>)

\* a text read left to right: the text up to the first marker, the span
\* from the marker to its terminator, and the rest read the same way; a
\* marker without a terminator is the end of the reading
RECURSIVE Spans(_)
Spans(text) ==
    IF Markers(text) = {} \/ Terminators(text, Least(Markers(text)) + Len(latexStart)) = {}
    THEN IF text = <<>> THEN <<>> ELSE <<TextOf(text)>>
    ELSE LET i == Least(Markers(text))
             e == Least(Terminators(text, i + Len(latexStart)))
         IN  (IF i = 0 THEN <<>> ELSE <<TextOf(Slice(text, 0, i))>>)
             \o <<MathOf(Slice(text, i + Len(latexStart), e))>>
             \o Spans(From(text, e + 1))

\* a tree with every text node replaced by its reading
RECURSIVE WithSpans(_)
RECURSIVE WithSpansKids(_, _)
WithSpans(t) == [t EXCEPT !.kids = WithSpansKids(t.kids, 1)]

WithSpansKids(kids, k) ==
    IF k > Len(kids) THEN <<>>
    ELSE (IF kids[k].type = "text" THEN Spans(kids[k].data)
          ELSE <<WithSpans(kids[k])>>)
         \o WithSpansKids(kids, k + 1)

\* C10: ProcessWpLatex turns, left to right, every `$latex ` ... `$` span
\* with a terminator into a wp:latex element holding the inner text; a
\* marker without terminator and a `$latex` not followed by a space stay
\* literal text; no run ends in an error.
C10_LatexSpansLeftToRight ==
    pc \in {"latex", "done"} =>
        /\ result \in {"running", "ok"}
        /\ err = NoErr
        /\ Done => FinalTree = WithSpans(Ser(Build(toks), Root))

\* `a $latex b$ c $latex d` gave text `a `, math b, text ` c $latex d`
C10_Witness ==
    /\ toks = LatexExampleOpen
    /\ Done /\ result = "ok"
    /\ FinalTree = BodyOf(<<TextOf(<<"a", " ">>), MathOf(<<"b">>),
                            TextOf(<<" ", "c", " ">> \o latexStart \o <<"d">>)>>)

----------------------------------------------------------------------------
(* The writer on its own (SpecWriter): any sequence of Write, WriteByte    *)
(* and EnsureLinefeeds calls, the indent stack left alone.  calls is the   *)
(* sequence of calls made.                                                 *)

\* longest sequence of calls on the writer
MaxCalls == 4
\* largest request passed to EnsureLinefeeds
MaxLf == 3

WriteArgs ==
    { <<>>, <<"a">>, <<"\n">>, <<"\n", "\n">>, <<"a", "\n">>, <<"\n", "b">>,
      <<"a", "\n", "b">>, <<"a", "\n", "\n", "\n", "b">> }

\* most calls made on a writer whose indent stack and verbatim counter change
MaxIndentCalls == 4

WriterRunning ==
    \/ stage = "writer" /\ Len(calls) < MaxCalls
    \/ stage = "indent" /\ Len(calls) < MaxIndentCalls

CallWrite ==
    /\ WriterRunning
    /\ \E p \in WriteArgs :
          /\ wr' = Write(wr, p)
          /\ calls' = Append(calls, [op |-> "Write", p |-> p, n |-> 0])
    /\ UNCHANGED <<toks, nodes, frames, pc, scanPos, result, err, last, seen,
                   attrs, attrPos, keyIdx, attrOut, stage, ret, saved>>

CallWriteByte ==
    /\ WriterRunning
    /\ \E b \in {"a", "\n"} :
          /\ wr' = WriteByte(wr, b)
          /\ calls' = Append(calls, [op |-> "WriteByte", p |-> <<b>>, n |-> 0])
    /\ UNCHANGED <<toks, nodes, frames, pc, scanPos, result, err, last, seen,
                   attrs, attrPos, keyIdx, attrOut, stage, ret, saved>>

CallEnsureLinefeeds ==
    /\ WriterRunning
    /\ \E n \in 1..MaxLf :
          /\ wr' = EnsureLinefeeds(wr, n)
          /\ calls' = Append(calls, [op |-> "EnsureLinefeeds", p |-> <<>>, n |-> n])
    /\ UNCHANGED <<toks, nodes, frames, pc, scanPos, result, err, last, seen,
                   attrs, attrPos, keyIdx, attrOut, stage, ret, saved>>

\* a fresh writer, or one inside a block quote (PushIndent("> ") was made)
InitWriter ==
    /\ stage = "writer"
    /\ wr \in {NewWriter, PushIndent(NewWriter, <<">", " ">>)}
    /\ calls = <<>>
    /\ ret = NoRet
    /\ saved = <<>>
    /\ toks = <<>>
    /\ nodes = <<>>
    /\ frames = <<>>
    /\ pc = "writer"
    /\ scanPos = 0
    /\ result = "running"
    /\ err = NoErr
    /\ last = NoStep
    /\ seen = {}
    /\ attrs = <<>>
    /\ attrPos = 0
    /\ keyIdx = 0
    /\ attrOut = <<>>

NextWriter == CallWrite \/ CallWriteByte \/ CallEnsureLinefeeds

SpecWriter == InitWriter /\ [][NextWriter]_vars

\* the calls as events in time: a byte written, or a request made
RECURSIVE EventsOf(_)
EventsOf(cs) ==
    IF cs = <<>> THEN <<>>
    ELSE (IF cs[1].op = "EnsureLinefeeds" THEN <<[req |-> cs[1].n, b |-> ""]>>
          ELSE [k \in 1..Len(cs[1].p) |-> [req |-> 0, b |-> cs[1].p[k]]])
         \o EventsOf(Tail(cs))

IsContentEvent(e) == e.b \notin {"", "\n"}

Max(a, b) == IF a >= b THEN a ELSE b

\* the largest request and the number of literal linefeeds among the
\* events ev[from..to)
RECURSIVE LargestRequest(_, _, _)
LargestRequest(ev, from, to) ==
    IF from >= to THEN 0 ELSE Max(ev[from].req, LargestRequest(ev, from + 1, to))

LiteralLinefeeds(ev, from, to) ==
    Cardinality({k \in from..(to - 1) : ev[k].b = "\n"})

\* the positions of the content bytes among the events, in order
ContentPositions(ev) == {k \in 1..Len(ev) : IsContentEvent(ev[k])}

NextContent(ev, k) ==
    CHOOSE j \in ContentPositions(ev) :
        j > k /\ \A i \in ContentPositions(ev) : i > k => j <= i

\* what the output must be after the content byte at event k: the run the
\* claim gives for each gap, each linefeed followed by the indent prefix
RECURSIVE OutputFrom(_, _, _)
OutputFrom(ev, k, prefix) ==
    IF \A j \in ContentPositions(ev) : j <= k
    THEN <<>>
    ELSE LET j == NextContent(ev, k)
             run == Max(LargestRequest(ev, k + 1, j), LiteralLinefeeds(ev, k + 1, j))
         IN  [i \in 1..(run * (1 + Len(prefix))) |->
                 IF (i - 1) % (1 + Len(prefix)) = 0 THEN "\n"
                 ELSE prefix[(i - 1) % (1 + Len(prefix))]]
             \o <<ev[j].b>> \o OutputFrom(ev, j, prefix)

\* the events after the last content byte
LastContent(ev) ==
    IF ContentPositions(ev) = {} THEN 0
    ELSE CHOOSE j \in ContentPositions(ev) : \A i \in ContentPositions(ev) : i <= j

WriterPrefix == IF wr.indents = <<>> THEN <<>> ELSE wr.indents[Len(wr.indents)]

RECURSIVE Repeat(_, _)
Repeat(str, n) == IF n <= 0 THEN <<>> ELSE str \o Repeat(str, n - 1)

\* C12: between one content and the next the writer emits max(largest
\* request since the previous content, literal linefeeds written)
\* linefeeds: the literal ones at once, the shortfall when the next content
\* byte is written; after a content byte no request is pending.
C12_LinefeedRunIsMax ==
    stage = "writer" =>
        LET ev == EventsOf(calls)
            lc == LastContent(ev)
        IN  /\ wr.out = OutputFrom(ev, 0, WriterPrefix)
                        \o Repeat(<<"\n">> \o WriterPrefix,
                                  LiteralLinefeeds(ev, lc + 1, Len(ev) + 1))
            /\ wr.lfRunTarget = LargestRequest(ev, lc + 1, Len(ev) + 1)
            /\ wr.lfRunCounter = LiteralLinefeeds(ev, lc + 1, Len(ev) + 1)

\* EnsureLinefeeds(3), EnsureLinefeeds(1), a literal linefeed and then
\* content: three linefeeds stand between a and b
C12_Witness ==
    /\ stage = "writer"
    /\ calls = << [op |-> "Write", p |-> <<"a", "\n">>, n |-> 0],
                  [op |-> "EnsureLinefeeds", p |-> <<>>, n |-> 3],
                  [op |-> "EnsureLinefeeds", p |-> <<>>, n |-> 1],
                  [op |-> "WriteByte", p |-> <<"a">>, n |-> 0] >>
    /\ wr.out = <<"a", "\n", "\n", "\n", "a">>
    /\ wr.lfRunTarget = 0

----------------------------------------------------------------------------
(* markdownEscape on its own (SpecEscape): a text without linefeeds is     *)
(* escaped into a fresh writer with the full escaped set, as handleText    *)
(* does for every line of a text node.  toks is the text.                  *)

\* longest text that is escaped
MaxEscLen == 3

EscAlphabet ==
    { "\\", GraveAccent, "*", "_", "{", "}", "[", "]", "(", ")", "#", "+",
      "-", ".", "!", ":", "|", "&", "<", ">", "$", "1", "a", "/" }

\* markdownEscape(w, []byte(text), escapedCharsAll)
Escape ==
    /\ stage = "escape"
    /\ wr' = markdownEscape(wr, toks, escapedCharsAll)
    /\ calls' = Append(calls, [op |-> "markdownEscape", p |-> toks, n |-> 0])
    /\ stage' = "escaped"
    /\ UNCHANGED <<toks, nodes, frames, pc, scanPos, result, err, last, seen,
                   attrs, attrPos, keyIdx, attrOut, ret, saved>>

InitEscape ==
    /\ stage = "escape"
    /\ toks \in SeqsUpTo(EscAlphabet, MaxEscLen)
    /\ wr = NewWriter
    /\ calls = <<>>
    /\ ret = NoRet
    /\ saved = <<>>
    /\ nodes = <<>>
    /\ frames = <<>>
    /\ pc = "escape"
    /\ scanPos = 0
    /\ result = "running"
    /\ err = NoErr
    /\ last = NoStep
    /\ seen = {}
    /\ attrs = <<>>
    /\ attrPos = 0
    /\ keyIdx = 0
    /\ attrOut = <<>>

NextEscape == Escape

SpecEscape == InitEscape /\ [][NextEscape]_vars

\* the character at position k (from 1) of the text is to be escaped: it
\* is of the escaped set; a `.` only after a digit, a `:` only before `//`,
\* a `!` only before another `!`
ToBeEscaped(text, k) ==
    /\ InChars(text[k], escapedCharsAll)
    /\ text[k] = "." => (k > 1 /\ text[k - 1] \in DigitChars)
    /\ text[k] = ":" => (k + 2 <= Len(text) /\ text[k + 1] = "/" /\ text[k + 2] = "/")
    /\ text[k] = "!" => (k + 1 <= Len(text) /\ text[k + 1] = "!")

RECURSIVE EscapedText(_, _)
EscapedText(text, k) ==
    IF k > Len(text) THEN <<>>
    ELSE (IF ToBeEscaped(text, k) THEN <<"\\">> ELSE <<>>) \o <<text[k]>>
         \o EscapedText(text, k + 1)

\* C14: a `.` is escaped exactly when the character before it in the text
\* is a decimal digit; the output is the text with a backslash in front of
\* every character that is to be escaped.
C14_DotEscapedAfterDigit ==
    stage = "escaped" => wr.out = EscapedText(toks, 1)

\* `1.` came out as `1.`, the dot not escaped
C14_Witness ==
    /\ stage = "escaped"
    /\ toks = <<"1", ".">>
    /\ wr.out = <<"1", ".">>

\* the reader's side: a backslash in front of a character of the escaped
\* set is removed, everything else is kept
RECURSIVE Unescape(_)
Unescape(str) ==
    IF str = <<>> THEN <<>>
    ELSE IF str[1] = "\\" /\ Len(str) > 1
            /\ str[2] \in {"\\", GraveAccent, "*", "_", "{", "}", "[", "]", "(", ")",
                           "#", "+", "-", ".", "!", ":", "|", "&", "<", ">", "$"}
    THEN <<str[2]>> \o Unescape(SubSeq(str, 3, Len(str)))
    ELSE <<str[1]>> \o Unescape(Tail(str))

BackslashCount(str) == Cardinality({k \in 1..Len(str) : str[k] = "\\"})

\* C15: removing the backslash in front of each backslash-prefixed
\* character of the escaped set gives the text back, and every backslash
\* of the text is written with a backslash in front of it.
C15_EscapeRoundTrips ==
    stage = "escaped" =>
        /\ Unescape(wr.out) = toks
        /\ BackslashCount(wr.out) >= 2 * BackslashCount(toks)

\* `\*` came out as `\\\*`
C15_Witness ==
    /\ stage = "escaped"
    /\ toks = <<"\\", "*">>
    /\ wr.out = <<"\\", "\\", "\\", "*">>

----------------------------------------------------------------------------
(* The renderer of src/html2markdown.go.  A rendering operator takes the   *)
(* writer before the call and gives a record of the writer after it and    *)
(* the error returned (NoErr for nil).                                     *)

RenderOk(w) == [w |-> w, err |-> NoErr]

RenderErr(w, kind, tag) == [w |-> w, err |-> [NoErr EXCEPT !.kind = kind, !.tag = tag]]

Parent(ns, n) == ns[n].parent

PrevSibling(ns, c) ==
    IF ns[c].parent = 0 THEN 0
    ELSE IF PosIn(ns[ns[c].parent].kids, c, 1) <= 1 THEN 0
    ELSE ns[ns[c].parent].kids[PosIn(ns[ns[c].parent].kids, c, 1) - 1]

LastChild(ns, p) == IF ns[p].kids = <<>> THEN 0 ELSE ns[p].kids[Len(ns[p].kids)]

\* n.DataAtom: the parser sets it from the tag name; the nodes made by the
\* shortcode package carry none
DataAtom(ns, n) ==
    IF ns[n].type = "element" /\ ns[n].ns = "" THEN ns[n].data ELSE <<>>

\* the documents and attachments of conv.go's urlRewriter: one document of
\* Id 7 at the address d/, no attachment
docsByUrl == {<<"d", "/">>}

RewriteUrl(target) ==
    IF target \in docsByUrl \/ Append(target, "/") \in docsByUrl
    THEN <<"*", "7">>
    ELSE target

hasAttr(ns, node, key) ==
    \E k \in 1..Len(ns[node].attr) : ns[node].attr[k][1] = key

RECURSIVE attrFrom(_, _, _)
attrFrom(a, key, k) ==
    IF k > Len(a) THEN <<>>
    ELSE IF a[k][1] = key THEN a[k][2]
    ELSE attrFrom(a, key, k + 1)

attr(ns, node, key) == attrFrom(ns[node].attr, key, 1)

imgAllowedAttrs ==
    {<<"s", "r", "c">>, <<"a", "l", "t">>, <<"t", "i", "t", "l", "e">>, <<"w", "i", "d", "t", "h">>, <<"h", "e", "i", "g", "h", "t">>, <<"c", "l", "a", "s", "s">>, <<"s", "t", "y", "l", "e">>}

hasOnlyAllowedAttrs(ns, node, allowed) ==
    \A k \in 1..Len(ns[node].attr) : ns[node].attr[k][1] \in allowed

Headings == {<<"h", "1">>, <<"h", "2">>, <<"h", "3">>, <<"h", "4">>, <<"h", "5">>, <<"h", "6">>}

isBlockLevelElement(ns, node) ==
    /\ ns[node].type = "element"
    /\ DataAtom(ns, node) \in
           Headings \cup {<<"d", "i", "v">>, <<"p">>, <<"h", "r">>, <<"b", "l", "o", "c", "k", "q", "u", "o", "t", "e">>, <<"p", "r", "e">>,
                          <<"o", "l">>, <<"u", "l">>, <<"d", "l">>, <<"d", "d">>, <<"f", "o", "r", "m">>}

\* the second loop of isPrevBlockBoundary: down along the last children
RECURSIVE prevBoundaryDown(_, _)
prevBoundaryDown(ns, n) ==
    IF n = 0 THEN FALSE
    ELSE IF isBlockLevelElement(ns, n) THEN TRUE
    ELSE prevBoundaryDown(ns, LastChild(ns, n))

\* its first loop: up to the first ancestor-or-self with a previous sibling
RECURSIVE isPrevBlockBoundary(_, _)
isPrevBlockBoundary(ns, n) ==
    IF isBlockLevelElement(ns, n) THEN TRUE
    ELSE IF PrevSibling(ns, n) # 0 THEN prevBoundaryDown(ns, PrevSibling(ns, n))
    ELSE IF Parent(ns, n) = 0 THEN TRUE
    ELSE isPrevBlockBoundary(ns, Parent(ns, n))

RECURSIVE nextBoundaryDown(_, _)
nextBoundaryDown(ns, n) ==
    IF n = 0 THEN FALSE
    ELSE IF isBlockLevelElement(ns, n) THEN TRUE
    ELSE nextBoundaryDown(ns, FirstChild(ns, n))

RECURSIVE isNextBlockBoundary(_, _)
isNextBlockBoundary(ns, n) ==
    IF isBlockLevelElement(ns, n) THEN TRUE
    ELSE IF NextSibling(ns, n) # 0 THEN nextBoundaryDown(ns, NextSibling(ns, n))
    ELSE IF Parent(ns, n) = 0 THEN TRUE
    ELSE isNextBlockBoundary(ns, Parent(ns, n))

trimLeftNewline(text) ==
    IF Len(text) >= 1 /\ At(text, 0) = "\n" /\ (Len(text) < 2 \/ At(text, 1) # "\n")
    THEN From(text, 1)
    ELSE text

trimRightNewline(text) ==
    IF /\ Len(text) >= 1
       /\ At(text, Len(text) - 1) = "\n"
       /\ (Len(text) < 2 \/ At(text, Len(text) - 2) # "\n")
    THEN Slice(text, 0, Len(text) - 1)
    ELSE text

\* the end of the run of linefeeds that holds text[end - 1]
RECURSIVE linefeedRunEnd(_, _)
linefeedRunEnd(text, end) ==
    IF end < Len(text) /\ At(text, end) = "\n"
    THEN linefeedRunEnd(text, end + 1)
    ELSE end

\* mutant: a run of linefeeds is written as it is
writeLineBreakKeepsRun(w, i, end) ==
    IF end = i + 1 THEN WriteString(w, <<"\n", "<", "b", "r", ">">>)
    ELSE WriteString(w, [k \in 1..(end - i) |-> "\n"])

\* single line break or paragraph break (the run is text[i:end])
writeLineBreak(w, i, end) ==
    IF end = i + 1 THEN WriteString(w, <<"\n", "<", "b", "r", ">">>)
    ELSE WriteString(w, <<"\n", "\n">>)

RECURSIVE handleText(_, _)
handleTextRun(w, text, i, end) ==
    handleText(writeLineBreak(markdownEscape(w, Slice(text, 0, i), escapedCharsAll),
                              i, end),
               From(text, end))

handleText(w, text) ==
    IF IndexByte(text, "\n") # -1
    THEN handleTextRun(w, text, IndexByte(text, "\n"),
                       linefeedRunEnd(text, IndexByte(text, "\n") + 1))
    ELSE markdownEscape(w, text, escapedCharsAll)

\* case html.TextNode of renderElement
renderText(w, ns, n) ==
    handleText(w,
        (IF isNextBlockBoundary(ns, n) THEN trimRightNewline(
            IF isPrevBlockBoundary(ns, n) THEN trimLeftNewline(ns[n].data)
            ELSE ns[n].data)
         ELSE IF isPrevBlockBoundary(ns, n) THEN trimLeftNewline(ns[n].data)
         ELSE ns[n].data))

RECURSIVE singlelineFrom(_, _)
singlelineFrom(w, buf) ==
    IF IndexAny(buf, <<"\r", "\n">>) # -1
    THEN singlelineFrom(WriteByte(Write(w, Slice(buf, 0, IndexAny(buf, <<"\r", "\n">>))), " "),
                        From(buf, IndexAny(buf, <<"\r", "\n">>) + 1))
    ELSE Write(w, buf)

singleline(w, prefix, buf) == singlelineFrom(WriteString(w, prefix), buf)

headingPrefix ==
    << <<"#", " ">>, <<"#", "#", " ">>, <<"#", "#", "#", " ">>, <<"#", "#", "#", "#", " ">>, <<"#", "#", "#", "#", "#", " ">>, <<"#", "#", "#", "#", "#", "#", " ">> >>

\* int(n.DataAtom.String()[1] - '1')
headingLevel(ns, n) == Ord(At(DataAtom(ns, n), 1)) - Ord("1")

containsMarkup(ns, node) ==
    ~ /\ FirstChild(ns, node) = LastChild(ns, node)
      /\ (FirstChild(ns, node) = 0 \/ ns[FirstChild(ns, node)].type = "text")

isWhite(ch) == ch \in {" ", "\n", "\t", "\r"}

\* strings.TrimSpace
RECURSIVE TrimSpace(_)
TrimSpace(str) ==
    IF str = <<>> THEN str
    ELSE IF isWhite(str[1]) THEN TrimSpace(Tail(str))
    ELSE IF isWhite(str[Len(str)]) THEN TrimSpace(SubSeq(str, 1, Len(str) - 1))
    ELSE str

containsOnlyListItems(ns, node) ==
    \A k \in 1..Len(ns[node].kids) :
        IF ns[ns[node].kids[k]].type = "text"
        THEN TrimSpace(ns[ns[node].kids[k]].data) = <<>>
        ELSE /\ ns[ns[node].kids[k]].type = "element"
             /\ DataAtom(ns, ns[node].kids[k]) = <<"l", "i">>

\* nil is the empty text here: every caller takes its length or writes it
leafChildText(ns, node) ==
    IF FirstChild(ns, node) = 0 THEN <<>>
    ELSE IF ns[FirstChild(ns, node)].type = "text" THEN ns[FirstChild(ns, node)].data
    ELSE <<>>

\* tryLeafChildText(node) != nil
hasLeafChildText(ns, node) ==
    /\ Len(ns[node].attr) = 0
    /\ ~containsMarkup(ns, node)

isSimpleLink(ns, node) ==
    /\ ~containsMarkup(ns, node)
    /\ Len(ns[node].attr) = 1
    /\ ns[node].attr[1][1] = <<"h", "r", "e", "f">>

isImageLink(ns, node) ==
    /\ Len(ns[node].attr) = 1
    /\ ns[node].attr[1][1] = <<"h", "r", "e", "f">>
    /\ FirstChild(ns, node) # 0
    /\ FirstChild(ns, node) = LastChild(ns, node)
    /\ ns[FirstChild(ns, node)].type = "element"
    /\ DataAtom(ns, FirstChild(ns, node)) = <<"i", "m", "g">>
    /\ attr(ns, node, <<"h", "r", "e", "f">>) = attr(ns, FirstChild(ns, node), <<"s", "r", "c">>)

\* hasFloatLeft, `(\W|^)float:\s*left\s*(;|$)`, and hasFloatRight,
\* `(\W|^)float:\s*right\s(;|$)`, of which the second wants exactly one
\* white character after the word
isRegexSpace(ch) == ch \in {" ", "\t", "\n", "\f", "\r"}

RECURSIVE skipSpaces(_, _)
skipSpaces(str, k) ==
    IF k < Len(str) /\ isRegexSpace(At(str, k)) THEN skipSpaces(str, k + 1) ELSE k

atEndOrSemicolon(str, k) == k = Len(str) \/ (k < Len(str) /\ At(str, k) = ";")

floatLeftAt(str, k) ==
    /\ (k = 0 \/ ~isWord(At(str, k - 1)))
    /\ HasPrefixAt(str, <<"f", "l", "o", "a", "t", ":">>, k)
    /\ HasPrefixAt(str, <<"l", "e", "f", "t">>, skipSpaces(str, k + 6))
    /\ \E e \in (skipSpaces(str, k + 6) + 4)..skipSpaces(str, skipSpaces(str, k + 6) + 4) :
           atEndOrSemicolon(str, e)

floatRightAt(str, k) ==
    /\ (k = 0 \/ ~isWord(At(str, k - 1)))
    /\ HasPrefixAt(str, <<"f", "l", "o", "a", "t", ":">>, k)
    /\ HasPrefixAt(str, <<"r", "i", "g", "h", "t">>, skipSpaces(str, k + 6))
    /\ skipSpaces(str, k + 6) + 5 < Len(str)
    /\ isRegexSpace(At(str, skipSpaces(str, k + 6) + 5))
    /\ atEndOrSemicolon(str, skipSpaces(str, k + 6) + 6)

hasFloatLeft(str) == \E k \in 0..(Len(str) - 1) : floatLeftAt(str, k)

hasFloatRight(str) == \E k \in 0..(Len(str) - 1) : floatRightAt(str, k)

\* "{" + strings.TrimSpace(out_attrs) + "}" + alt
imageAlt(style, alt) ==
    IF hasFloatLeft(style) /\ hasFloatRight(style)
    THEN <<"{", "f", "l", "o", "a", "t", "l", "e", "f", "t", " ", "f", "l", "o", "a", "t", "r", "i", "g", "h", "t", "}">> \o alt
    ELSE IF hasFloatLeft(style) THEN <<"{", "f", "l", "o", "a", "t", "l", "e", "f", "t", "}">> \o alt
    ELSE IF hasFloatRight(style) THEN <<"{", "f", "l", "o", "a", "t", "r", "i", "g", "h", "t", "}">> \o alt
    ELSE alt

imageTarget(w, url, title) ==
    IF title = <<>>
    THEN surround(w, <<"(">>, url, <<")">>, <<"(", ")">>)
    ELSE surround(surround(w, <<"(">>, url, <<" ">>, <<"\"", "(", ")">>),
                  <<"\"">>, title, <<"\"", ")">>, <<"\"">>)

handleImage(w, ns, node) ==
    IF ~hasOnlyAllowedAttrs(ns, node, imgAllowedAttrs)
    THEN [w |-> w, ok |-> FALSE]
    ELSE [w |-> imageTarget(surround(w, <<"!", "[">>,
                                     imageAlt(attr(ns, node, <<"s", "t", "y", "l", "e">>),
                                              attr(ns, node, <<"a", "l", "t">>)),
                                     <<"]">>, <<"[", "]">>),
                            RewriteUrl(attr(ns, node, <<"s", "r", "c">>)),
                            attr(ns, node, <<"t", "i", "t", "l", "e">>)),
          ok |-> TRUE]

\* the loop of tabsToSpaces (all text is ASCII: a rune is a byte)
RECURSIVE tabsLoop(_, _, _, _)
tabsAt(in, out, col, tabsize, i) ==
    IF At(in, i) = "\t"
    THEN tabsLoop(From(in, i + 1),
                  out \o Slice(in, 0, i)
                      \o [k \in 1..(tabsize - ((col + i) % tabsize)) |-> " "],
                  col + i + (tabsize - ((col + i) % tabsize)), tabsize)
    ELSE tabsLoop(From(in, i + 1), out \o Slice(in, 0, i + 1), 0, tabsize)

tabsLoop(in, out, col, tabsize) ==
    IF IndexAny(in, <<"\n", "\r", "\f", "\t">>) = -1 THEN out \o in
    ELSE tabsAt(in, out, col, tabsize, IndexAny(in, <<"\n", "\r", "\f", "\t">>))

tabsToSpaces(in, tabsize) ==
    IF IndexByte(in, "\t") = -1 THEN in ELSE tabsLoop(in, <<>>, 0, tabsize)

\* w.Verbatim++ and w.Verbatim--
\* w.Verbatim++ and w.Verbatim--; fault records a counter below zero
addVerbatim(w, d) ==
    [w EXCEPT !.Verbatim = @ + d, !.fault = @ \/ w.Verbatim + d < 0]

\* html.Render of the html package: the markup of the tree below n, text
\* and attribute values with & < > " ' and carriage return escaped
escapeChar(ch) ==
    CASE ch = "&" -> <<"&", "a", "m", "p", ";">>
      [] ch = "<" -> <<"&", "l", "t", ";">>
      [] ch = ">" -> <<"&", "g", "t", ";">>
      [] ch = "\"" -> <<"&", "#", "3", "4", ";">>
      [] ch = "'" -> <<"&", "#", "3", "9", ";">>
      [] ch = "\r" -> <<"&", "#", "1", "3", ";">>
      [] OTHER -> <<ch>>

RECURSIVE htmlEscape(_)
htmlEscape(str) ==
    IF str = <<>> THEN <<>> ELSE escapeChar(str[1]) \o htmlEscape(Tail(str))

RECURSIVE htmlAttrs(_, _)
htmlAttrs(a, k) ==
    IF k > Len(a) THEN <<>>
    ELSE <<" ">> \o a[k][1] \o <<"=", "\"">> \o htmlEscape(a[k][2]) \o <<"\"">> \o htmlAttrs(a, k + 1)

voidElements ==
    {<<"a", "r", "e", "a">>, <<"b", "a", "s", "e">>, <<"b", "r">>, <<"c", "o", "l">>, <<"e", "m", "b", "e", "d">>, <<"h", "r">>, <<"i", "m", "g">>,
     <<"i", "n", "p", "u", "t">>, <<"l", "i", "n", "k">>, <<"m", "e", "t", "a">>, <<"p", "a", "r", "a", "m">>, <<"s", "o", "u", "r", "c", "e">>, <<"t", "r", "a", "c", "k">>, <<"w", "b", "r">>}

RECURSIVE htmlRender(_, _)
RECURSIVE htmlRenderKids(_, _, _)
htmlRender(ns, n) ==
    IF ns[n].type = "text" THEN htmlEscape(ns[n].data)
    ELSE IF ns[n].data \in voidElements
    THEN <<"<">> \o ns[n].data \o htmlAttrs(ns[n].attr, 1) \o <<"/", ">">>
    ELSE <<"<">> \o ns[n].data \o htmlAttrs(ns[n].attr, 1) \o <<">">>
         \o htmlRenderKids(ns, ns[n].kids, 1)
         \o <<"<", "/">> \o ns[n].data \o <<">">>

htmlRenderKids(ns, kids, k) ==
    IF k > Len(kids) THEN <<>>
    ELSE htmlRender(ns, kids[k]) \o htmlRenderKids(ns, kids, k + 1)

\* w.Verbatim++; err := html.Render(w, n); w.Verbatim--
renderAsHtml(w, ns, n) ==
    RenderOk(addVerbatim(Write(addVerbatim(w, 1), htmlRender(ns, n)), -1))

checkWpCaption(ns, node) ==
    IF /\ FirstChild(ns, node) # 0
       /\ ns[FirstChild(ns, node)].type = "element"
       /\ DataAtom(ns, FirstChild(ns, node)) = <<"a">>
    THEN /\ FirstChild(ns, FirstChild(ns, node)) # 0
         /\ ns[FirstChild(ns, FirstChild(ns, node))].type = "element"
         /\ DataAtom(ns, FirstChild(ns, FirstChild(ns, node))) = <<"i", "m", "g">>
    ELSE /\ FirstChild(ns, node) # 0
         /\ ns[FirstChild(ns, node)].type = "element"
         /\ DataAtom(ns, FirstChild(ns, node)) = <<"i", "m", "g">>

RECURSIVE renderElement(_, _, _, _)
RECURSIVE renderContents(_, _, _, _, _)

\* for n := from; n != nil; n = n.NextSibling { renderElement(w, n, -1) }
RECURSIVE renderSiblings(_, _, _)
renderSiblingsNext(r, ns, n) ==
    IF r.err # NoErr THEN r ELSE renderSiblings(r.w, ns, NextSibling(ns, n))

renderSiblings(w, ns, n) ==
    IF n = 0 THEN RenderOk(w)
    ELSE renderSiblingsNext(renderElement(w, ns, n, -1), ns, n)

renderContentsEnd(r, suffix) ==
    IF r.err # NoErr THEN r ELSE RenderOk(WriteString(r.w, suffix))

renderContents(w, prefix, ns, node, suffix) ==
    renderContentsEnd(renderSiblings(WriteString(w, prefix), ns, FirstChild(ns, node)),
                      suffix)

\* the writer and error of the cloned writer: Bytes() is .w.out, ok is
\* .err = NoErr
childText(w, ns, node) == renderContents(Clone(w), <<>>, ns, node, <<>>)

\* for n := node.FirstChild; n != renderEnd; n = n.NextSibling {
\*     renderContents(w, "", n, "") }
RECURSIVE captionContents(_, _, _, _)
captionContentsNext(r, ns, n, renderEnd) ==
    IF r.err # NoErr THEN r
    ELSE captionContents(r.w, ns, NextSibling(ns, n), renderEnd)

captionContents(w, ns, n, renderEnd) ==
    IF n = renderEnd THEN RenderOk(w)
    ELSE captionContentsNext(renderContents(w, <<>>, ns, n, <<>>), ns, n, renderEnd)

captionEnd(r, caption) ==
    IF r.err # NoErr THEN r
    ELSE RenderOk(WriteString(WriteString(WriteString(r.w, <<"{", "%", " ", "f", "i", "g", "c", "a", "p", "t", "i", "o", "n", " ", "%", "}">>),
                                          caption),
                              <<"{", "%", " ", "e", "n", "d", "f", "i", "g", "c", "a", "p", "t", "i", "o", "n", " ", "%", "}", "{", "%", " ", "e", "n", "d", "f", "i", "g", "u", "r", "e", " ", "%", "}">>))

captionFigure(w, ns, node, renderEnd, caption) ==
    captionEnd(captionContents(WriteString(w, <<"{", "%", " ", "f", "i", "g", "u", "r", "e", " ", "%", "}">>), ns,
                               FirstChild(ns, node), renderEnd),
               caption)

\* the new-style caption: r is the rendering of the children after the
\* first into a cloned writer
captionRendered(w, ns, node, r) ==
    IF r.err # NoErr THEN [w |-> w, err |-> r.err]
    ELSE captionFigure(w, ns, node, NextSibling(ns, FirstChild(ns, node)),
                       TrimSpace(r.w.out))

handleWpCaption(w, ns, node) ==
    IF ~checkWpCaption(ns, node) THEN RenderErr(w, "captionshape", <<>>)
    ELSE IF ~hasAttr(ns, node, <<"c", "a", "p", "t", "i", "o", "n">>)
    THEN captionRendered(w, ns, node,
                         renderSiblings(Clone(w), ns,
                                        NextSibling(ns, FirstChild(ns, node))))
    ELSE captionFigure(w, ns, node, 0, attr(ns, node, <<"c", "a", "p", "t", "i", "o", "n">>))

\* the switch on n.Data of a node of the shortcode namespace, and the
\* fallback
renderOther(w, ns, n) ==
    IF ns[n].ns = Namespace
    THEN IF ns[n].data = LATEX
         THEN RenderOk(surround(w,
                                IF Len(leafChildText(ns, n)) > 0
                                   /\ At(leafChildText(ns, n), 0) = "["
                                THEN <<"$", "$", " ">> ELSE <<"$", "$">>,
                                leafChildText(ns, n), <<"$", "$">>, <<>>))
         ELSE IF ns[n].data \in {CAPTION, WP_CAPTION}
         THEN handleWpCaption(w, ns, n)
         ELSE RenderErr(w, "unhandled", ns[n].data)
    ELSE renderAsHtml(w, ns, n)

renderHeading(w, ns, n, ct) ==
    IF ct.err = NoErr
    THEN RenderOk(EnsureLinefeeds(singleline(EnsureLinefeeds(w, 2),
                                             headingPrefix[headingLevel(ns, n) + 1],
                                             ct.w.out),
                                  2))
    ELSE renderOther(w, ns, n)

renderCode(w, ns, n) ==
    RenderOk(addVerbatim(surround(addVerbatim(w, 1), <<GraveAccent>>,
                                  leafChildText(ns, n), <<GraveAccent>>, <<>>),
                         -1))

codeFence == <<GraveAccent, GraveAccent, GraveAccent>>

renderPre(w, ns, n) ==
    RenderOk(EnsureLinefeeds(
        WriteString(
            EnsureLinefeeds(
                addVerbatim(
                    surround(addVerbatim(WriteString(EnsureLinefeeds(w, 2),
                                                     codeFence \o <<"\n">>), 1),
                             <<>>, tabsToSpaces(leafChildText(ns, n), 8), <<>>, <<>>),
                    -1),
                1),
            codeFence),
        2))

renderLink(w, ns, n) ==
    RenderOk(surround(surround(w, <<"[">>, leafChildText(ns, n), <<"]">>, <<"[", "]">>),
                      <<"(">>, RewriteUrl(attr(ns, n, <<"h", "r", "e", "f">>)), <<")">>, <<"(", ")">>))

\* the loop of case atom.Ol, atom.Ul over the children kids[k..], i items
\* rendered so far
RECURSIVE renderItems(_, _, _, _, _)
renderItemsNext(r, ns, kids, k, i) ==
    IF r.err # NoErr THEN r ELSE renderItems(r.w, ns, kids, k + 1, i + 1)

renderItems(w, ns, kids, k, i) ==
    IF k > Len(kids) THEN RenderOk(EnsureLinefeeds(w, 2))
    ELSE IF ns[kids[k]].type # "element" THEN renderItems(w, ns, kids, k + 1, i)
    ELSE renderItemsNext(renderElement(w, ns, kids[k], i), ns, kids, k, i)

renderList(w, ns, n) == renderItems(EnsureLinefeeds(w, 2), ns, ns[n].kids, 1, 0)

\* w.PopIndent(); w.EnsureLinefeeds(n); return err
\* mutant: the indent is popped only when the contents rendered without error
renderIndentedEndKeepsOnError(r, n) ==
    IF r.err # NoErr THEN r
    ELSE [w |-> EnsureLinefeeds(PopIndent(r.w), n), err |-> r.err]

renderIndentedEnd(r, n) == [w |-> EnsureLinefeeds(PopIndent(r.w), n), err |-> r.err]

listItemPrefix(parentAtom, listIndex) ==
    IF parentAtom = <<"o", "l">> THEN Itoa(listIndex + 1) \o <<".", " ">> ELSE <<"*", " ">>

renderListItem(w, ns, n, listIndex) ==
    renderIndentedEnd(
        renderContents(PushIndent(w, <<" ", " ", " ", " ">>),
                       listItemPrefix(DataAtom(ns, Parent(ns, n)), listIndex),
                       ns, n, <<>>),
        1)

renderBlockquote(w, ns, n) ==
    renderIndentedEnd(
        renderContents(PushIndent(EnsureLinefeeds(w, 2), <<">", " ">>), <<">", " ">>, ns, n, <<>>),
        1)

\* the switch on n.DataAtom
renderByAtom(w, ns, n, listIndex, a) ==
    IF a \in Headings THEN renderHeading(w, ns, n, childText(w, ns, n))
    ELSE IF a \in {<<"e", "m">>, <<"i">>} THEN renderContents(w, <<"*">>, ns, n, <<"*">>)
    ELSE IF a \in {<<"s", "t", "r", "o", "n", "g">>, <<"b">>} THEN renderContents(w, <<"*", "*">>, ns, n, <<"*", "*">>)
    ELSE IF /\ a = <<"c", "o", "d", "e">>
            /\ hasLeafChildText(ns, n)
            /\ IndexByte(leafChildText(ns, n), GraveAccent) = -1
    THEN renderCode(w, ns, n)
    ELSE IF /\ a = <<"p", "r", "e">>
            /\ hasLeafChildText(ns, n)
            /\ IndexStr(leafChildText(ns, n), codeFence) = -1
    THEN renderPre(w, ns, n)
    ELSE IF a = <<"a">> /\ isSimpleLink(ns, n) THEN renderLink(w, ns, n)
    ELSE IF /\ a = <<"a">>
            /\ isImageLink(ns, n)
            /\ handleImage(w, ns, FirstChild(ns, n)).ok
    THEN RenderOk(handleImage(w, ns, FirstChild(ns, n)).w)
    ELSE IF a = <<"i", "m", "g">> /\ handleImage(w, ns, n).ok
    THEN RenderOk(handleImage(w, ns, n).w)
    ELSE IF a \in {<<"o", "l">>, <<"u", "l">>} /\ containsOnlyListItems(ns, n)
    THEN renderList(w, ns, n)
    ELSE IF /\ a = <<"l", "i">>
            /\ listIndex >= 0
            /\ Parent(ns, n) # 0
            /\ DataAtom(ns, Parent(ns, n)) \in {<<"o", "l">>, <<"u", "l">>}
    THEN renderListItem(w, ns, n, listIndex)
    ELSE IF a = <<"b", "l", "o", "c", "k", "q", "u", "o", "t", "e">> THEN renderBlockquote(w, ns, n)
    ELSE renderOther(w, ns, n)

renderElement(w, ns, n, listIndex) ==
    IF ns[n].type = "text" THEN RenderOk(renderText(w, ns, n))
    ELSE IF ns[n].type = "comment" THEN RenderOk(w)
    ELSE IF ns[n].type # "element" THEN RenderErr(w, "nodetype", <<>>)
    ELSE renderByAtom(w, ns, n, listIndex, DataAtom(ns, n))

----------------------------------------------------------------------------
(* ConvertHtmlToMarkdown.  The state after construction is the state after *)
(* html.ParseFragment: the tree of the document under the body node.  The  *)
(* steps of ProcessShortcodes and ProcessWpLatex are the actions above;    *)
(* the rendering of one child of the body is one step.  calls is the list  *)
(* of the stages entered, ret what the function returned.                  *)

\* longest document in tokens
MaxConvTok == 5

ConvertTokens ==
    {Tok("plain", "a"), Tok("plain", "\n"),
     Tok("eopen", "h1"), Tok("eclose", "h1"), Tok("void", "img"),
     Tok("open", "caption"), Tok("close", "caption"), Tok("cattr", "caption")}

\* <h1>, <a> and <li> are not opened inside themselves (the parser would
\* close the open one first)
RECURSIVE PlainNestingFrom(_, _, _)
PlainNestingFrom(ts, k, open) ==
    IF k > Len(ts) THEN TRUE
    ELSE IF ts[k].f = "eopen"
    THEN /\ ~(ts[k].n \in {"h1", "a", "li"} /\ \E j \in 1..Len(open) : open[j] = ts[k].n)
         /\ PlainNestingFrom(ts, k + 1, Append(open, ts[k].n))
    ELSE IF ts[k].f = "eclose"
    THEN PlainNestingFrom(ts, k + 1, SubSeq(open, 1, Len(open) - 1))
    ELSE PlainNestingFrom(ts, k + 1, open)

PlainNesting(ts) == PlainNestingFrom(ts, 1, <<>>)

Element(n, inner) == <<Tok("eopen", n)>> \o inner \o <<Tok("eclose", n)>>

Caption(f, inner) == <<Tok(f, "caption")>> \o inner \o <<Tok("close", "caption")>>

Image == <<Tok("void", "img")>>

\* line one\nline two, para one\n\npara two, para one\n\n\n\npara two
LineExamples ==
    {Text(<<"a", "\n", "b">>), Text(<<"a", "\n", "\n", "b">>), Text(<<"a", "\n", "\n", "\n", "b">>), Text(<<"a", "\n", "\n", "\n", "\n", "b">>),
     Text(<<"a", "\n", "b", "\n", "c">>), Text(<<"a", "\n", "\n", "b", "\n", "c">>), Text(<<"\n", "a", "\n">>), Text(<<"\n", "\n", "a", "\n", "\n">>),
     Element("b", Text(<<"a", "\n", "b">>)), Element("b", Text(<<"a", "\n", "\n", "\n", "b">>)),
     Text(<<"a", "\n">>) \o Element("h1", Text(<<"\n", "b", "\n">>)) \o Text(<<"\n", "c", "\n", "d">>),
     Text(<<"a", "\n">>) \o Element("b", Text(<<"\n", "b", "\n">>)) \o Text(<<"\n", "c">>)}

\* captions of invalid shape
BadCaptionExamples ==
    {Text(<<"a">>) \o Caption("open", Text(<<"b">>)) \o Text(<<"c">>),
     Caption("open", <<>>),
     Caption("cattr", Text(<<"b">>)),
     Caption("open", Element("b", Image)),
     Caption("open", Element("a", Text(<<"b">>))),
     Element("b", Caption("open", Text(<<"b">>))),
     Element("h1", Caption("open", Text(<<"b">>))),
     Element("h1", Caption("open", <<>>))}

\* captions of valid shape: a[caption id="b" w=d]<img src="u"/>[/caption]b
\* and its variants
GoodCaptionExamples ==
    {Text(<<"a">>) \o Caption("attr", Image) \o Text(<<"b">>),
     Caption("open", Image),
     Caption("open", Image \o Text(<<" ", "b", " ">>)),
     Caption("open", Image \o Text(<<"b">>) \o Element("b", Text(<<"c">>))),
     Caption("cattr", Image),
     Caption("cattr", Image \o Text(<<"b">>)),
     Caption("open", Element("a", Image)),
     Caption("open", Element("a", Image) \o Text(<<"b">>)),
     Caption("cattr", Element("a", Image) \o Text(<<"b">>)),
     Element("b", Caption("open", Element("a", Image)))}

ListItem(str) == Element("li", Text(str))

First == Element("li", <<Tok("word", "first")>>)

Second == Element("li", <<Tok("word", "second")>>)

\* <ol><li>first</li><li>second</li></ol> and other lists
ListExamples ==
    {Element("ol", First \o Second),
     Element("ol", Text(<<"\n">>) \o First \o Text(<<"\n">>) \o Second \o Text(<<"\n">>)),
     Element("ol", ListItem(<<"a">>) \o Text(<<" ">>) \o ListItem(<<"b">>) \o ListItem(<<"c">>)),
     Element("ol", ListItem(<<"a", "\n", "b">>) \o ListItem(<<"c">>)),
     Element("ol", ListItem(<<"a">>)),
     Text(<<"a">>) \o Element("ol", ListItem(<<"b">>) \o ListItem(<<"c">>)) \o Text(<<"d">>),
     Element("ol", ListItem(<<"a">>) \o Text(<<"b">>)),
     Element("ol", Element("li", Text(<<"a">>) \o Caption("open", Text(<<"b">>))))}

\* documents that meet the remaining branches: an escape, an unregistered
\* tag, a lone bracket, a mismatch, math, a link
OtherExamples ==
    {Text(<<"a">>) \o <<Tok("esc", "caption")>>,
     <<Tok("open", "x")>>,
     Text(<<"a", "[">>),
     ExampleMismatch,
     ExampleEmptyClose,
     <<Tok("open", "caption")>>,
     <<Tok("math", "")>> \o Text(<<"x", "$">>),
     Caption("open", Image \o <<Tok("math", "")>> \o Text(<<"x", "$">>)),
     Element("a", Text(<<"a">>)),
     Element("h1", Text(<<"a", "\n", "b">>))}

\* block quotes, list items and verbatim elements in each other, some with
\* a caption of the wrong shape inside
IndentExamples ==
    {Element("blockquote", Text(<<"a", "\n", "b">>)),
     Element("blockquote", Element("ol", ListItem(<<"a">>) \o ListItem(<<"b">>))),
     Element("blockquote", Text(<<"a">>) \o Caption("open", Text(<<"b">>))),
     Element("ol", Element("li", Element("blockquote", Text(<<"a">>)) \o Text(<<"b">>))),
     Element("ol", Element("li", Element("blockquote", Caption("open", Text(<<"b">>))))),
     Element("blockquote", Element("pre", Text(<<"a", "\n", "b">>))),
     Element("blockquote", Element("code", Text(<<"a">>)) \o Element("x", Text(<<"b">>))),
     Text(<<"a">>) \o Element("pre", Text(<<"b">>)) \o Element("x", Text(<<"c">>))}

ConvertInputs ==
    {ts \in SeqsUpTo(ConvertTokens, MaxConvTok) : WellFormed(ts) /\ PlainNesting(ts)}
    \cup LineExamples \cup BadCaptionExamples \cup GoodCaptionExamples
    \cup ListExamples \cup OtherExamples \cup IndentExamples

\* mutant: the output written so far is returned with the error
ConvertReturnPartial(w, e) == [returned |-> TRUE, out |-> w.out, err |-> e]

\* return nil, err and return wr.Bytes(), nil
ConvertReturn(w, e) ==
    [returned |-> TRUE, out |-> IF e = NoErr THEN w.out ELSE <<>>, err |-> e]

\* if err = shortcode.ProcessShortcodes(body); err != nil { return nil, err }
ShortcodesFailed ==
    /\ stage = "shortcodes" /\ pc = "done" /\ result = "error"
    /\ ret' = ConvertReturn(wr, err)
    /\ stage' = "returned"
    /\ last' = [NoStep EXCEPT !.act = "ShortcodesFailed"]
    /\ UNCHANGED <<toks, nodes, frames, pc, scanPos, result, err, seen,
                   attrs, attrPos, keyIdx, attrOut, wr, saved, calls>>

\* shortcode.ProcessWpLatex(body) is entered
StartLatex ==
    /\ stage = "shortcodes" /\ pc = "done" /\ result = "ok"
    /\ stage' = "latex"
    /\ pc' = "latex"
    /\ result' = "running"
    /\ frames' = <<Frame(nodes, Root)>>
    /\ calls' = Append(calls, "ProcessWpLatex")
    /\ last' = [NoStep EXCEPT !.act = "StartLatex"]
    /\ UNCHANGED <<toks, nodes, scanPos, err, seen, attrs, attrPos, keyIdx, attrOut,
                   wr, ret, saved>>

\* wr := &writer{RewriteUrl: rewriteFn}; elem := body.FirstChild
StartRender ==
    /\ stage = "latex" /\ pc = "done" /\ result = "ok"
    /\ stage' = "render"
    /\ pc' = "render"
    /\ wr' = NewWriter
    /\ frames' = <<Frame(nodes, Root)>>
    /\ calls' = Append(calls, "renderElement")
    /\ last' = [NoStep EXCEPT !.act = "StartRender"]
    /\ UNCHANGED <<toks, nodes, scanPos, result, err, seen, attrs, attrPos, keyIdx,
                   attrOut, ret, saved>>

\* err = renderElement(wr, elem, -1); if err != nil { return nil, err }
RenderChild ==
    /\ stage = "render" /\ pc = "render"
    /\ TopFrame.n # 0
    /\ LET r == renderElement(wr, nodes, TopFrame.n, -1)
       IN  /\ wr' = r.w
           /\ IF r.err # NoErr
              THEN /\ ret' = ConvertReturn(r.w, r.err)
                   /\ stage' = "returned"
                   /\ pc' = "done"
                   /\ UNCHANGED frames
              ELSE /\ frames' = SetTop([TopFrame EXCEPT
                                           !.n = NextSibling(nodes, TopFrame.n)])
                   /\ UNCHANGED <<ret, stage, pc>>
    /\ last' = [NoStep EXCEPT !.act = "RenderChild", !.node = TopFrame.n]
    /\ UNCHANGED <<toks, nodes, scanPos, result, err, seen, attrs, attrPos, keyIdx,
                   attrOut, saved, calls>>

\* wr.handleDelayedLf(); return wr.Bytes(), nil
RenderReturn ==
    /\ stage = "render" /\ pc = "render"
    /\ TopFrame.n = 0
    /\ wr' = handleDelayedLf(wr)
    /\ ret' = ConvertReturn(handleDelayedLf(wr), NoErr)
    /\ stage' = "returned"
    /\ pc' = "done"
    /\ last' = [NoStep EXCEPT !.act = "RenderReturn"]
    /\ UNCHANGED <<toks, nodes, frames, scanPos, result, err, seen, attrs, attrPos,
                   keyIdx, attrOut, saved, calls>>

InitConvert ==
    /\ toks \in ConvertInputs
    /\ nodes = Build(toks)
    /\ frames = <<Frame(nodes, Root)>>
    /\ pc = "loop"
    /\ scanPos = 0
    /\ result = "running"
    /\ err = NoErr
    /\ last = NoStep
    /\ seen = {}
    /\ attrs = <<>>
    /\ attrPos = 0
    /\ keyIdx = 0
    /\ attrOut = <<>>
    /\ stage = "shortcodes"
    /\ wr = NewWriter
    /\ ret = NoRet
    /\ saved = <<>>
    /\ calls = <<"ProcessShortcodes">>

NextConvert ==
    \/ LoopText
    \/ LoopElement
    \/ ScanEnd
    \/ ScanPanic
    \/ ScanNotTag
    \/ ScanEscape
    \/ ScanShortcode
    \/ ElemReturn
    \/ RootReturn
    \/ Cleanup
    \/ ShortcodesFailed
    \/ StartLatex
    \/ LatexText
    \/ LatexElement
    \/ LatexElemReturn
    \/ LatexCleanup
    \/ StartRender
    \/ RenderChild
    \/ RenderReturn

SpecConvert == InitConvert /\ [][NextConvert]_vars

----------------------------------------------------------------------------
(* Properties of ConvertHtmlToMarkdown, checked under SpecConvert.         *)

StageOrder == <<"ProcessShortcodes", "ProcessWpLatex", "renderElement">>

StageSteps ==
    {<<"shortcodes", "latex">>, <<"latex", "render">>,
     <<"shortcodes", "returned">>, <<"render", "returned">>}

\* C11: the stages run in the order shortcodes, math spans, rendering, and
\* the first failure ends the run: after an error of ProcessShortcodes no
\* later stage is entered and nothing is written, a returned error is the
\* failing stage's error and comes with no output bytes, and no step
\* follows the return.
C11_StagesInOrderStopAtFailure ==
    /\ [](/\ IsPrefix(calls, StageOrder)
          /\ (stage \in {"shortcodes", "latex"} => wr = NewWriter /\ ~ret.returned)
          /\ (err # NoErr => calls = <<"ProcessShortcodes">> /\ wr = NewWriter)
          /\ (result = "panic" => ~ret.returned /\ wr = NewWriter)
          /\ (ret.returned /\ ret.err # NoErr => ret.out = <<>>)
          /\ (ret.returned /\ err # NoErr => ret.err = err)
          /\ (ret.returned /\ ret.err = NoErr => calls = StageOrder /\ ret.out = wr.out))
    /\ [][/\ ~ret.returned
          /\ (stage' # stage => <<stage, stage'>> \in StageSteps)]_vars

\* a[caption]b[/caption]c: the caption fails after `a` was written, and
\* the error is returned without it
C11_Witness ==
    /\ ret.returned
    /\ ret.err.kind = "captionshape"
    /\ wr.out = <<"a">>
    /\ ret.out = <<>>
    /\ calls = StageOrder

\* the characters of a document that is text only
CharsOf(ts) == [k \in 1..Len(ts) |-> ts[k].n]

IsTextOnly(ts) ==
    /\ ts # <<>>
    /\ \A k \in 1..Len(ts) :
           ts[k].f = "plain" /\ ~InChars(ts[k].n, escapedCharsAll)

\* the run of linefeeds that starts at position k ends before RunEnd
RECURSIVE RunEnd(_, _)
RunEnd(text, k) ==
    IF k <= Len(text) /\ text[k] = "\n" THEN RunEnd(text, k + 1) ELSE k

\* what the linefeeds of text[k..] are to become
RECURSIVE LineBreaks(_, _)
LineBreaks(text, k) ==
    IF k > Len(text) THEN <<>>
    ELSE IF text[k] # "\n" THEN <<text[k]>> \o LineBreaks(text, k + 1)
    ELSE IF RunEnd(text, k) = k + 1
    THEN <<"\n", "<", "b", "r", ">">> \o LineBreaks(text, k + 1)
    ELSE <<"\n", "\n">> \o LineBreaks(text, RunEnd(text, k))

\* a single linefeed at either end of a text between block boundaries is
\* trimmed
TrimmedStart(text) ==
    IF text # <<>> /\ RunEnd(text, 1) = 2 THEN Tail(text) ELSE text

TrimmedEnd(text) ==
    IF /\ text # <<>>
       /\ text[Len(text)] = "\n"
       /\ (Len(text) = 1 \/ text[Len(text) - 1] # "\n")
    THEN SubSeq(text, 1, Len(text) - 1)
    ELSE text

Rendered(text) == LineBreaks(TrimmedEnd(TrimmedStart(text)), 1)

\* C13: in the rendering of a text node a single linefeed comes out as a
\* linefeed and `<br>`, a run of two or more linefeeds as exactly two
\* linefeeds; checked for the documents that are one text node, alone or
\* inside <b>.
C13_LinefeedsInText ==
    stage = "returned" =>
        /\ IsTextOnly(toks) =>
               ret.err = NoErr /\ ret.out = Rendered(CharsOf(toks))
        /\ \A k \in 3..Len(toks) :
               (k = Len(toks) /\ toks = Element("b", SubSeq(toks, 2, k - 1))
                /\ IsTextOnly(SubSeq(toks, 2, k - 1)))
               => ret.out = <<"*", "*">> \o Rendered(CharsOf(SubSeq(toks, 2, k - 1)))
                            \o <<"*", "*">>

\* a\n\nb\nc came out as a\n\nb\n<br>c
C13_Witness ==
    /\ stage = "returned"
    /\ toks = Text(<<"a", "\n", "\n", "b", "\n", "c">>)
    /\ ret.out = <<"a", "\n", "\n", "b", "\n", "<", "b", "r", ">", "c">>

\* n is in the tree below the body
RECURSIVE InTree(_, _)
InTree(ns, n) ==
    IF n = Root THEN TRUE
    ELSE IF ns[n].parent = 0 THEN FALSE
    ELSE InTree(ns, ns[n].parent)

IsImage(ns, n) == n # 0 /\ ns[n].type = "element" /\ ns[n].data = <<"i", "m", "g">>

IsLink(ns, n) == n # 0 /\ ns[n].type = "element" /\ ns[n].data = <<"a">>

CaptionElements(ns) ==
    {n \in 1..Len(ns) : /\ InTree(ns, n)
                        /\ ns[n].type = "element"
                        /\ ns[n].ns = Namespace
                        /\ ns[n].data \in {CAPTION, WP_CAPTION}}

\* the first child is an image, or a link whose first child is an image
ValidShape(ns, n) ==
    \/ IsImage(ns, FirstChild(ns, n))
    \/ /\ IsLink(ns, FirstChild(ns, n))
       /\ IsImage(ns, FirstChild(ns, FirstChild(ns, n)))

\* C16: a document with a caption element whose first child is neither an
\* image nor a link that starts with an image is not converted: the
\* conversion returns the caption-shape error, and no output.
C16_CaptionShapeErrorAborts ==
    (/\ stage = "returned"
     /\ calls = StageOrder
     /\ \E n \in CaptionElements(nodes) : ~ValidShape(nodes, n))
    => ret.err.kind = "captionshape" /\ ret.out = <<>>

\* <h1>[caption]b[/caption]</h1>: the conversion succeeded, the heading is
\* passed through as markup
C16_Witness ==
    /\ stage = "returned"
    /\ toks = Element("h1", Caption("open", Text(<<"b">>)))
    /\ ret.err = NoErr
    /\ ret.out = <<"<", "h", "1", ">", "<", "c", "a", "p", "t", "i", "o", "n", ">", "b", "<", "/", "c", "a", "p", "t", "i", "o", "n", ">", "<", "/", "h", "1", ">">>

FigureOpen == <<"{", "%", " ", "f", "i", "g", "u", "r", "e", " ", "%", "}">>

FigcaptionOpen == <<"{", "%", " ", "f", "i", "g", "c", "a", "p", "t", "i", "o", "n", " ", "%", "}">>

FigureClose == <<"{", "%", " ", "e", "n", "d", "f", "i", "g", "c", "a", "p", "t", "i", "o", "n", " ", "%", "}", "{", "%", " ", "e", "n", "d", "f", "i", "g", "u", "r", "e", " ", "%", "}">>

ImageMarkup == <<"!", "[", "]", "(", "u", ")">>

LinkedImage == Element("a", Image)

\* the content after the leading image, and the caption text it makes
CaptionRests ==
    { <<<<>>, <<>>>>, <<Text(<<"b">>), <<"b">>>>, <<Text(<<" ", "b", " ">>), <<"b">>>> }

\* the caption text: the attribute `caption` when there is one
CaptionText(f, rest) == IF f = "cattr" THEN <<"c">> ELSE rest[2]

\* C17: a caption of valid shape, with text before and after it, comes out
\* as the figure wrapper around the markup of its leading image, followed
\* by the caption text, for a direct image and for an image in a link.
C17_FigureHoldsImageAndCaption ==
    stage = "returned" =>
        \A f \in {"open", "attr", "cattr"}, first \in {Image, LinkedImage},
           rest \in CaptionRests, pre \in {<<>>, <<"a">>}, post \in {<<>>, <<"b">>} :
            toks = Text(pre) \o Caption(f, first \o rest[1]) \o Text(post)
            => /\ ret.err = NoErr
               /\ ret.out = pre \o FigureOpen \o ImageMarkup \o FigcaptionOpen
                            \o CaptionText(f, rest) \o FigureClose \o post

\* a[caption id="b" w=d]<img src="u"/>[/caption]b: the figure is empty
C17_Witness ==
    /\ stage = "returned"
    /\ toks = Text(<<"a">>) \o Caption("attr", Image) \o Text(<<"b">>)
    /\ ret.err = NoErr
    /\ ret.out = <<"a">> \o FigureOpen \o FigcaptionOpen \o FigureClose \o <<"b">>

\* C18: the ordered list of the two items `first` and `second`, with or
\* without linefeeds between the items, is converted to exactly
\* `1. first\n2. second\n`.
C18_OrderedListOutput ==
    stage = "returned" =>
        \A sep \in {<<>>, Text(<<"\n">>)} :
            toks = Element("ol", sep \o First \o sep \o Second \o sep)
            => ret.err = NoErr /\ ret.out = <<"1", ".", " ", "f", "i", "r", "s", "t", "\n", "2", ".", " ", "s", "e", "c", "o", "n", "d", "\n">>

\* <ol><li>first</li><li>second</li></ol> came out with two linefeeds in
\* front and two at the end
C18_Witness ==
    /\ stage = "returned"
    /\ toks = Element("ol", First \o Second)
    /\ ret.out = <<"\n", "\n", "1", ".", " ", "f", "i", "r", "s", "t", "\n", "2", ".", " ", "s", "e", "c", "o", "n", "d", "\n", "\n">>

\* the document has no shortcode token, and its text no `[` and nowhere
\* the marker `$latex `
NoMarkers(ts) ==
    /\ \A k \in 1..Len(ts) :
           ts[k].f \in {"plain", "word", "eopen", "eclose", "void"} /\ ts[k].n # "["
    /\ IndexStr(CharsOf(ts), latexStart) = -1

\* C20: on a tree without `[` and without `$latex ` ProcessShortcodes does
\* not fail, and neither it nor ProcessWpLatex changes anything: at every
\* step the nodes, their texts, attributes, parents and child lists are
\* those of the parsed document.
C20_NoMarkersNoChange ==
    NoMarkers(toks) =>
        /\ result \notin {"error", "panic"}
        /\ nodes = Build(toks)
        /\ (stage = "returned" => calls = StageOrder)

\* a<h1>a</h1> passed both rewriting stages unchanged
C20_Witness ==
    /\ stage = "render"
    /\ toks = Text(<<"a">>) \o Element("h1", Text(<<"a">>))
    /\ NoMarkers(toks)
    /\ nodes = Build(toks)
    /\ Ser(nodes, Root) =
           BodyOf(<<TextOf(<<"a">>),
                    [type |-> "element", data |-> <<"h", "1">>, ns |-> "", attr |-> <<>>,
                     kids |-> <<TextOf(<<"a">>)>>]>>)

----------------------------------------------------------------------------
(* ProcessShortcodes called a second time on the tree it returned.  saved  *)
(* is the tree after the first call; stage is "first" during the first     *)
(* call and "second" from the second call on.                              *)

\* longest document in tokens
MaxRerunTok == 4

RerunInputs ==
    {ts \in SeqsUpTo(TreeTokens, MaxRerunTok) : WellFormed(ts)}
    \cup SeqsUpTo(LexTokens, MaxLexTok)
    \cup Examples

\* the first call returned nil: ProcessShortcodes(root) is called again
Rerun ==
    /\ stage = "first" /\ pc = "done" /\ result = "ok"
    /\ stage' = "second"
    /\ saved' = nodes
    /\ frames' = <<Frame(nodes, Root)>>
    /\ pc' = "loop"
    /\ scanPos' = 0
    /\ result' = "running"
    /\ last' = [NoStep EXCEPT !.act = "Rerun", !.node = Root]
    /\ UNCHANGED <<toks, nodes, err, seen, attrs, attrPos, keyIdx, attrOut,
                   wr, ret, calls>>

InitRerun ==
    /\ toks \in RerunInputs
    /\ nodes = Build(toks)
    /\ frames = <<Frame(nodes, Root)>>
    /\ pc = "loop"
    /\ scanPos = 0
    /\ result = "running"
    /\ err = NoErr
    /\ last = NoStep
    /\ seen = {}
    /\ attrs = <<>>
    /\ attrPos = 0
    /\ keyIdx = 0
    /\ attrOut = <<>>
    /\ stage = "first"
    /\ wr = NewWriter
    /\ ret = NoRet
    /\ saved = <<>>
    /\ calls = <<>>

NextRerun ==
    \/ LoopText
    \/ LoopElement
    \/ ScanEnd
    \/ ScanPanic
    \/ ScanNotTag
    \/ ScanEscape
    \/ ScanShortcode
    \/ ElemReturn
    \/ RootReturn
    \/ Cleanup
    \/ Rerun

SpecRerun == InitRerun /\ [][NextRerun]_vars

\* C19: when the first call of ProcessShortcodes succeeded, the second call
\* on its result succeeds too and leaves every node as it was.
C19_RerunChangesNothing ==
    (stage = "second" /\ pc = "done") => result = "ok" /\ nodes = saved

\* [[caption]]: the first call left the text `[caption]`, which the second
\* call took for an opening tag that is never closed
C19_Witness ==
    /\ stage = "second" /\ pc = "done"
    /\ toks = <<Tok("esc", "caption")>>
    /\ Ser(saved, Root) = BodyOf(<<TextOf(<<"[", "c", "a", "p", "t", "i", "o", "n", "]">>)>>)
    /\ result = "error"
    /\ err.kind = "stillopen"

----------------------------------------------------------------------------
(* The writer under every call the renderer makes on it: the calls of      *)
(* SpecWriter and PushIndent, PopIndent, w.Verbatim++ and w.Verbatim--.    *)
(* calls is the list of the calls made.  PopIndent is called on a          *)
(* non-empty stack and the counter is not decremented below zero: the      *)
(* renderer makes each of them after its counterpart.                      *)

IndentRunning == stage = "indent" /\ Len(calls) < MaxIndentCalls

IndentPrefixes == {<<">", " ">>, <<" ", " ", " ", " ">>}

CallPushIndent ==
    /\ IndentRunning
    /\ \E prefix \in IndentPrefixes :
          /\ wr' = PushIndent(wr, prefix)
          /\ calls' = Append(calls, [op |-> "PushIndent", p |-> prefix, n |-> 0])
    /\ UNCHANGED <<toks, nodes, frames, pc, scanPos, result, err, last, seen,
                   attrs, attrPos, keyIdx, attrOut, stage, ret, saved>>

CallPopIndent ==
    /\ IndentRunning
    /\ Len(wr.indents) > 0
    /\ wr' = PopIndent(wr)
    /\ calls' = Append(calls, [op |-> "PopIndent", p |-> <<>>, n |-> 0])
    /\ UNCHANGED <<toks, nodes, frames, pc, scanPos, result, err, last, seen,
                   attrs, attrPos, keyIdx, attrOut, stage, ret, saved>>

\* w.Verbatim++ and w.Verbatim--
CallVerbatim ==
    /\ IndentRunning
    /\ \E d \in {1, -1} :
          /\ wr.Verbatim + d >= 0
          /\ wr' = addVerbatim(wr, d)
          /\ calls' = Append(calls, [op |-> "Verbatim", p |-> <<>>, n |-> d])
    /\ UNCHANGED <<toks, nodes, frames, pc, scanPos, result, err, last, seen,
                   attrs, attrPos, keyIdx, attrOut, stage, ret, saved>>

\* a fresh writer, or one inside a block quote; saved is the list of the
\* prefixes pushed before the first call
InitIndent ==
    /\ stage = "indent"
    /\ \/ wr = NewWriter /\ saved = <<>>
       \/ wr = PushIndent(NewWriter, <<">", " ">>) /\ saved = <<<<">", " ">>>>
    /\ calls = <<>>
    /\ ret = NoRet
    /\ toks = <<>>
    /\ nodes = <<>>
    /\ frames = <<>>
    /\ pc = "writer"
    /\ scanPos = 0
    /\ result = "running"
    /\ err = NoErr
    /\ last = NoStep
    /\ seen = {}
    /\ attrs = <<>>
    /\ attrPos = 0
    /\ keyIdx = 0
    /\ attrOut = <<>>

NextIndent ==
    \/ CallWrite
    \/ CallWriteByte
    \/ CallEnsureLinefeeds
    \/ CallPushIndent
    \/ CallPopIndent
    \/ CallVerbatim

SpecIndent == InitIndent /\ [][NextIndent]_vars

LastCall == IF calls = <<>> THEN [op |-> "", p |-> <<>>, n |-> 0] ELSE calls[Len(calls)]

\* C21: PushIndent and PopIndent flush the pending linefeed request before
\* the indent stack changes: after either call no request is pending.
C21_IndentChangeFlushes ==
    (stage = "indent" /\ LastCall.op \in {"PushIndent", "PopIndent"})
    => wr.lfRunTarget = 0

\* inside a block quote: EnsureLinefeeds(1), PopIndent, Write("a") gave
\* the linefeed without the prefix `> ` that was active at the request
C21_Witness ==
    /\ stage = "indent"
    /\ Len(calls) = 3
    /\ calls[1].op = "EnsureLinefeeds" /\ calls[1].n = 1
    /\ calls[2].op = "PopIndent"
    /\ calls[3].op = "Write" /\ calls[3].p = <<"a">>
    /\ wr.out = <<"\n", "a">>

\* a write of bytes none of which is a linefeed
IsPlainWrite(c) ==
    /\ c.op \in {"Write", "WriteByte"}
    /\ c.p # <<>>
    /\ \A k \in 1..Len(c.p) : c.p[k] # "\n"

\* C22: while the verbatim counter is above zero a write of non-linefeed
\* bytes appends exactly those bytes to the output and leaves the pending
\* linefeed request as it was.
C22_VerbatimWritePassesThrough ==
    [][(/\ stage = "indent"
        /\ wr.Verbatim > 0
        /\ calls' # calls
        /\ IsPlainWrite(calls'[Len(calls')]))
       => (/\ wr'.out = wr.out \o calls'[Len(calls')].p
           /\ wr'.lfRunTarget = wr.lfRunTarget)]_vars

\* in verbatim mode, with two linefeeds requested, Write("a") wrote the two
\* linefeeds before the a
C22_Witness ==
    /\ stage = "indent"
    /\ Len(calls) = 3
    /\ calls[1].op = "Verbatim" /\ calls[1].n = 1
    /\ calls[2].op = "EnsureLinefeeds" /\ calls[2].n = 2
    /\ calls[3].op = "Write" /\ calls[3].p = <<"a">>
    /\ wr.Verbatim = 1
    /\ wr.lfRunTarget = 0
    /\ wr.out = <<"\n", "\n", "a">>

\* the prefixes pushed and not popped after the calls cs, outermost first
RECURSIVE PushedAfter(_, _)
PushedAfter(stack, cs) ==
    IF cs = <<>> THEN stack
    ELSE PushedAfter(IF Head(cs).op = "PushIndent" THEN Append(stack, Head(cs).p)
                     ELSE IF Head(cs).op = "PopIndent"
                          THEN SubSeq(stack, 1, Len(stack) - 1)
                     ELSE stack,
                     Tail(cs))

RECURSIVE Concat(_)
Concat(strs) == IF strs = <<>> THEN <<>> ELSE Head(strs) \o Concat(Tail(strs))

\* text with prefix put after each of its linefeeds
RECURSIVE Indented(_, _)
Indented(text, prefix) ==
    IF text = <<>> THEN <<>>
    ELSE (IF Head(text) = "\n" THEN <<"\n">> \o prefix ELSE <<Head(text)>>)
         \o Indented(Tail(text), prefix)

StackIsConcatenation ==
    stage = "indent" =>
        /\ Len(wr.indents) = Len(PushedAfter(saved, calls))
        /\ \A k \in 1..Len(wr.indents) :
              wr.indents[k] = Concat(SubSeq(PushedAfter(saved, calls), 1, k))

\* the bytes a call writes: none unless it is Write or WriteByte
Written(c) == IF c.op \in {"Write", "WriteByte"} THEN c.p ELSE <<>>

\* what a step appends to the output: the call's bytes after some flushed
\* linefeeds, each linefeed followed by the prefix in effect before the step
\* (by nothing in verbatim mode)
LinefeedsIndented ==
    (stage = "indent" /\ calls' # calls) =>
        \E k \in 0..MaxLf :
            wr'.out = wr.out \o Indented(Repeat(<<"\n">>, k) \o Written(calls'[Len(calls')]),
                                         IF wr.Verbatim = 0 THEN WriterPrefix ELSE <<>>)

\* C23: each entry of the indent stack is the concatenation, outermost
\* first, of the prefixes pushed and not popped up to it; outside verbatim
\* mode every linefeed emitted, literal or flushed, is followed by the top
\* entry of the stack, and in verbatim mode by no prefix.
C23_IndentAfterEveryLinefeed ==
    []StackIsConcatenation /\ [][LinefeedsIndented]_vars

\* two prefixes pushed inside a block quote, then a linefeed and a letter
\* written: the linefeed is followed by all three prefixes
C23_Witness ==
    /\ stage = "indent"
    /\ saved = <<<<">", " ">>>>
    /\ Len(calls) = 4
    /\ calls[1].op = "PushIndent" /\ calls[1].p = <<" ", " ", " ", " ">>
    /\ calls[2].op = "PushIndent" /\ calls[2].p = <<">", " ">>
    /\ calls[3].op = "EnsureLinefeeds" /\ calls[3].n = 1
    /\ calls[4].op = "Write" /\ calls[4].p = <<"a", "\n", "b">>
    /\ wr.out = <<"\n", ">", " ", " ", " ", " ", " ", ">", " ", "a", "\n", ">", " ", " ", " ", " ", " ", ">", " ", "b">>

----------------------------------------------------------------------------
\* text, the text after a '[', is a closing tag of a registered block tag
\* with something other than the name between the "/" and the "]"
ClosingTagWithExtra(text) ==
    \E tag \in DOMAIN shortcodeIsBlock :
        /\ shortcodeIsBlock[tag]
        /\ IsPrefix(<<"/">> \o tag, text)
        /\ IndexByte(text, "]") > Len(tag) + 1
        /\ ~isShortname(At(text, Len(tag) + 1))

\* C24: a closing tag of a registered block tag with anything but the tag
\* name between `[/` and `]` is rejected by the tag lexer with consumed
\* length 0, so it stays text and closes nothing.
C24_ClosingTagOnlyBare ==
    (Scanning /\ ScanAt # -1 /\ ClosingTagWithExtra(From(ScanData, ScanAt + 1)))
    => (~ScanLex.panic /\ ScanLex.size = 0)

\* [caption]a[/caption/]b succeeded: the `[/caption/]` closed the caption
C24_Witness ==
    /\ toks = <<Tok("open", "caption"), Tok("plain", "a"), Tok("cself", "caption"),
                Tok("plain", "b")>>
    /\ result = "ok"
    /\ stage = "alone"
    /\ Ser(nodes, Root) = Ser(Intended(<<Tok("open", "caption"), Tok("plain", "a"),
                                         Tok("close", "caption"), Tok("plain", "b")>>), Root)

\* the texts after a '[' that hold no character of a tag name
NoNameTexts == {<<>>, <<"[">>, <<"/">>, <<"[", "/">>}

\* C25: the tag lexer returns a result for every text after a '[' without
\* reading outside the text, and consumed length 0 when the text is empty,
\* `[`, `/` or `[/`; ProcessShortcodes does not abort on a text node that
\* ends there.
C25_LexerIsTotal ==
    (Scanning /\ ScanAt # -1)
    => /\ ~ScanLex.panic
       /\ From(ScanData, ScanAt + 1) \in NoNameTexts => ScanLex.size = 0

\* ProcessShortcodes("[/") aborted in parseShortcode at the '['
C25_Witness ==
    /\ toks = Text(<<"[", "/">>)
    /\ stage = "alone"
    /\ result = "panic"
    /\ last.act = "ScanPanic"
    /\ last.at = 0

----------------------------------------------------------------------------
\* the three nodes a span makes of the text node n with data: the element,
\* its text child holding data[s..e), and the text after the terminator
SpanMade(ns, new, n, data, i, s, e) ==
    /\ Len(new) = Len(ns) + 3
    /\ new[n].data = Slice(data, 0, i)
    /\ new[Len(ns) + 1].type = "element"
    /\ new[Len(ns) + 1].data = LATEX
    /\ new[Len(ns) + 1].kids = <<Len(ns) + 2>>
    /\ new[Len(ns) + 2].type = "text"
    /\ new[Len(ns) + 2].data = Slice(data, s, e)
    /\ new[Len(ns) + 3].type = "text"
    /\ new[Len(ns) + 3].data = From(data, e + 1)

\* the step of processLatexTextNode on a text with a marker at i
SpanStep(data, i) ==
    IF Terminators(data, i + Len(latexStart)) = {}
    THEN nodes' = nodes /\ result' = "running"
    ELSE /\ result' = "running"
         /\ SpanMade(nodes, nodes', TopFrame.n, data, i, i + Len(latexStart),
                     Least(Terminators(data, i + Len(latexStart))))

\* C26: in the math-span scan a backslash consumes the character after it:
\* the span ends at the first `$` after the marker that no unconsumed
\* backslash precedes, its inner text keeps its backslashes, and a text
\* without such a `$` (a backslash as last character included) is left as
\* it is, the scan not reading past its end.
C26_BackslashConsumesNext ==
    [][(/\ LatexRunning
        /\ TopFrame.n # 0
        /\ nodes[TopFrame.n].type = "text"
        /\ Markers(nodes[TopFrame.n].data) # {})
       => SpanStep(nodes[TopFrame.n].data, Least(Markers(nodes[TopFrame.n].data)))]_vars

\* `$latex \$$` became one math element with the inner text `\$`
C26_Witness ==
    /\ toks = <<Tok("math", "")>> \o Text(<<"\\", "$", "$">>)
    /\ pc = "done"
    /\ result = "ok"
    /\ FinalTree = BodyOf(<<MathOf(<<"\\", "$">>)>>)

----------------------------------------------------------------------------
\* the parent and child links of ns agree: every child listed has the
\* listing node as its parent, is listed once, and every node with a
\* parent is listed by that parent; the root has no parent
TreeConsistent(ns) ==
    /\ ns[Root].parent = 0
    /\ \A p \in 1..Len(ns) :
          /\ \A k \in 1..Len(ns[p].kids) :
                /\ ns[p].kids[k] \in 1..Len(ns)
                /\ ns[ns[p].kids[k]].parent = p
                /\ \A j \in 1..Len(ns[p].kids) : ns[p].kids[j] = ns[p].kids[k] => j = k
          /\ ns[p].parent # 0 => PosIn(ns[ns[p].parent].kids, p, 1) # 0

\* the step that aborted the run: ScanPanic is the tag lexer's slice,
\* and ScanShortcode with a closing tag on an empty stack is tags[:l-1]
AbortedOutsideTree ==
    \/ last.act = "ScanPanic"
    \/ /\ last.act = "ScanShortcode"
       /\ handleShortcode(nodes, TopFrame.n, TopFrame.tags, ScanAt,
                          ScanAt + 1 + ScanLex.size, ScanLex.openClose, ScanLex.tag,
                          ScanLex.rest).ns # Bad
       /\ last.depth = 0
       /\ tagOpen \notin last.oc

----------------------------------------------------------------------------
\* the text of the tree below node c, in document order
RECURSIVE TreeText(_, _)
RECURSIVE TreeTextKids(_, _, _)
TreeText(ns, c) ==
    IF ns[c].type = "text" THEN ns[c].data ELSE TreeTextKids(ns, ns[c].kids, 1)

TreeTextKids(ns, kids, k) ==
    IF k > Len(kids) THEN <<>>
    ELSE TreeText(ns, kids[k]) \o TreeTextKids(ns, kids, k + 1)

\* the characters of ts[k..] that are no part of a registered tag and
\* no outer bracket of an escape
RECURSIVE KeptText(_, _)
KeptText(ts, k) ==
    IF k > Len(ts) THEN <<>>
    ELSE (IF ts[k].f \in {"eopen", "eclose", "void"} THEN <<>>
          ELSE IF IsRegisteredTok(ts[k]) /\ ts[k].f = "esc"
          THEN <<"[">> \o NameChars(ts[k].n) \o <<"]">>
          ELSE IF IsRegisteredTok(ts[k]) THEN <<>>
          ELSE Expand(ts[k]))
         \o KeptText(ts, k + 1)

\* C28: ProcessShortcodes deletes from the text only the characters of a
\* recognized tag, from its own `[` through its `]`, and the outer bracket
\* pair of an escape; every other character is in the text of the result,
\* in the original order.
C28_TextIsConserved ==
    (/\ stage = "alone"
     /\ pc = "done"
     /\ result = "ok"
     /\ \A k \in 1..Len(toks) : toks[k].f \notin {"cself", "cextra", "cextraself"})
    => TreeText(nodes, Root) = KeptText(toks, 1)

\* x[[caption]y[/caption] succeeded and the `[` before the tag is gone:
\* the text of the result is xy
C28_Witness ==
    /\ toks = ExampleBracketBeforeTag
    /\ stage = "alone"
    /\ pc = "done"
    /\ result = "ok"
    /\ TreeText(nodes, Root) = <<"x", "y">>

----------------------------------------------------------------------------
\* renderElement called on node c with list index i and writer w returns
\* with the indent stack and the verbatim counter w had, and without a
\* PopIndent on an empty stack or a counter below zero on the way
Balanced(w, r) ==
    /\ r.w.indents = w.indents
    /\ r.w.Verbatim = w.Verbatim
    /\ ~r.w.fault

\* C29: every call of renderElement, successful or not, leaves the indent
\* stack and the verbatim counter as they were at entry; during
\* ConvertHtmlToMarkdown PopIndent is never called on an empty stack and
\* the verbatim counter is never negative.
C29_RenderElementIsBalanced ==
    stage \in {"render", "returned"} =>
        /\ ~wr.fault
        /\ wr.Verbatim = 0
        /\ wr.indents = <<>>
        /\ stage = "render" =>
              \A c \in 2..Len(nodes) : \A i \in {-1, 0} :
                  InTree(nodes, c) =>
                      /\ Balanced(wr, renderElement(wr, nodes, c, i))
                      /\ Balanced(PushIndent(wr, <<">", " ">>),
                                  renderElement(PushIndent(wr, <<">", " ">>), nodes, c, i))

\* <ol><li><blockquote>[caption]b[/caption]</blockquote></li></ol>: the
\* caption's error came back through the block quote and the list item
C29_Witness ==
    /\ toks = Element("ol", Element("li", Element("blockquote", Caption("open", Text(<<"b">>)))))
    /\ stage = "returned"
    /\ ret.err # NoErr
    /\ wr.indents = <<>>
    /\ wr.Verbatim = 0
    /\ ~wr.fault

----------------------------------------------------------------------------
(* ProcessShortcodes followed by ProcessWpLatex, as ConvertHtmlToMarkdown  *)
(* calls them, on the inputs of both.  Each pass is one goroutine running  *)
(* to its return: a step that is possible is taken (weak fairness).        *)

\* most tokens of a generated input of the two passes
MaxPassTok == 3

\* the examples of both passes and every short text of tags, brackets,
\* math markers, backslashes and elements
PassInputs ==
    Examples \cup {LatexExampleOpen, LatexExampleTwo}
    \cup SeqsUpTo(LexTokens, MaxPassTok - 1)
    \cup {ts \in SeqsUpTo(LatexTokens, MaxPassTok) : WellFormed(ts)}

InitPasses ==
    /\ toks \in PassInputs
    /\ nodes = Build(toks)
    /\ frames = <<Frame(nodes, Root)>>
    /\ pc = "loop"
    /\ scanPos = 0
    /\ result = "running"
    /\ err = NoErr
    /\ last = NoStep
    /\ seen = {}
    /\ attrs = <<>>
    /\ attrPos = 0
    /\ keyIdx = 0
    /\ attrOut = <<>>
    /\ stage = "shortcodes"
    /\ wr = NewWriter
    /\ ret = NoRet
    /\ saved = <<>>
    /\ calls = <<"ProcessShortcodes">>

NextPasses == Next \/ StartLatex \/ NextLatex

\* a pass is running: one of its steps can be taken
PassRunning == result = "running"

PassSteps == Next \/ NextLatex

\* weak fairness of every step.  That of the steps of the passes is written
\* out, with PassRunning for ENABLED <<PassSteps>>_vars.
PassesFair ==
    /\ WF_vars(StartLatex)
    /\ ([]<>(~PassRunning) \/ []<><<PassSteps>>_vars)

SpecPasses == InitPasses /\ [][NextPasses]_vars /\ PassesFair

\* both passes have returned, or the first one has failed
PassesReturned == pc = "done" /\ (stage = "latex" \/ result # "ok")

\* the text node a pass is about to enter was not entered before
VisitsOnce ==
    (/\ result = "running"
     /\ pc \in {"loop", "latex"}
     /\ TopFrame.n # 0
     /\ nodes[TopFrame.n].type = "text")
    => TopFrame.n \notin last.visited

\* every iteration of parseAttrs on the attribute text of the tag at the
\* scan position, from whatever position, ends the loop or moves on
AttrsAdvance ==
    (Scanning /\ ScanAt # -1 /\ ~ScanLex.panic) =>
        \A pos \in 0..(Len(ScanLex.rest) - 1) :
            \/ attrStep(ScanLex.rest, pos, 0, 0).kind = "break"
            \/ attrStep(ScanLex.rest, pos, 0, 0).pos > pos

\* a step of processTextNode at a '[': the position advances, or the text
\* gets shorter and the position is past the replacement, or the scan goes
\* on in a new node shorter than what was left to scan
ScanAdvances ==
    (Scanning /\ ScanAt # -1 /\ ~ScanLex.panic /\ pc' # "done") =>
        IF ScanLex.size = 0 THEN scanPos' > scanPos /\ nodes' = nodes
        ELSE IF ScanLex.tag = <<>>
        THEN /\ Len(nodes'[TopFrame.n].data) < Len(ScanData)
             /\ scanPos' = ScanAt + Len(ScanLex.rest)
             /\ scanPos' > scanPos
        ELSE /\ pc' = "loop"
             /\ TopFrame'.n > Len(nodes)
             /\ Len(nodes'[TopFrame'.n].data) < Len(ScanData) - scanPos

\* a step of processLatexTextNode that makes a span goes on in a new node
\* shorter than the text it split
LatexAdvances ==
    (/\ LatexRunning
     /\ TopFrame.n # 0
     /\ nodes[TopFrame.n].type = "text"
     /\ nodes' # nodes)
    => /\ TopFrame'.n > Len(nodes)
       /\ Len(nodes'[TopFrame'.n].data) < Len(nodes[TopFrame.n].data)

\* C30: ProcessShortcodes and ProcessWpLatex terminate: each step of a text
\* scan advances the position, shortens the text by an escape replacement
\* and passes it, or splits the node leaving a shorter remainder; each
\* attribute-lexing iteration consumes a character; no text node is
\* entered twice.
C30_PassesTerminate ==
    /\ <>PassesReturned
    /\ [](VisitsOnce /\ AttrsAdvance)
    /\ [][ScanAdvances /\ LatexAdvances]_vars

\* a[caption id="b" w=d]e[/caption]f went through both passes, the three
\* text nodes and the two splits
C30_Witness ==
    /\ toks = ExampleAttr
    /\ stage = "latex"
    /\ pc = "done"
    /\ result = "ok"
    /\ Cardinality(last.visited) >= 3

====
